---- MODULE Spec2Model ----
(***************************************************************************)
(* State-machine model of the hr_hiring authentication backend:            *)
(* users, permission catalog and refresh-token sessions in the relational  *)
(* store, the token codec, the identity resolver, the role and permission  *)
(* gates, and the HTTP handlers of app/routers/{auth,users,admin}.py.      *)
(*                                                                         *)
(* Spec      : every handler runs to completion before the next request.   *)
(* SpecAdmin : the same, for the administrative endpoints.                 *)
(* SpecConc  : signup and firebase-login are split at their db.commit()    *)
(*             calls, so that requests interleave between commits.         *)
(* SpecMail  : email verification, password reset, profile and password   *)
(*             change, with the clock stepping to the tokens' expiry.      *)
(* SpecFed   : federated login for addresses that may also have signed up. *)
(* SpecSeed  : concurrent signups, the catalog seeding a commit of its own.*)
(***************************************************************************)
EXTENDS Integers, Sequences, FiniteSets, TLC

VARIABLES
    users,        \* table users: id -> row
    nextUid,      \* AUTO_INCREMENT of users.id
    catalog,      \* table permissions: the set of Permission.name
    sessions,     \* table user_sessions, in insertion order
    now,          \* datetime.utcnow(), in minutes
    ticks,        \* number of clock steps taken so far
    revoked,      \* history: the refresh tokens whose sessions were deleted,
                  \* of users who have not logged in since
    deleted,      \* history: the emails of deleted users
    inflight,     \* requests between two of their commits (SpecConc only)
    nextTok,      \* history: the one-time tokens generated so far, plus one
    resp          \* the response on its way to the caller, NoResp when none

vars == <<users, nextUid, catalog, sessions, now, ticks, revoked, deleted,
          inflight, nextTok, resp>>

(* ----------------------------- bounds --------------------------------- *)
MaxUsers == 2
MaxSessions == 2
MaxTicks == 1
MaxInflight == 2
MaxTokens == 3

(* ------------------------- program constants --------------------------- *)
ACCESS_TOKEN_EXPIRE_MINUTES == 30
REFRESH_TOKEN_EXPIRE_DAYS == 7
MinutesPerDay == 1440
MinutesPerHour == 60
VERIFICATION_EXPIRE_HOURS == 24
RESET_EXPIRE_HOURS == 1
HTTP_200_OK == 200
HTTP_201_CREATED == 201
HTTP_400_BAD_REQUEST == 400
HTTP_401_UNAUTHORIZED == 401
HTTP_403_FORBIDDEN == 403
HTTP_404_NOT_FOUND == 404
HTTP_500_INTERNAL_SERVER_ERROR == 500

NULL == "NULL"
NoId == 0
NoTime == -1

Emails == {"a@b.com", "c@d.com"}
SignupPasswords == {"Abc123"}
LoginPasswords == {"Abc123", "Wrong9"}
NewPasswords == {"New456"}
FirebaseUids == {"fb1", "fb2"}

UserRole == {"user", "admin", "hr", "candidate"}
PermissionName == {"read", "write", "delete", "manage_users", "manage_roles"}

(* ------------------------- credential hasher --------------------------- *)
get_password_hash(p) == <<"bcrypt", p>>
verify_password(p, h) == h = <<"bcrypt", p>>
NoPassword == <<"", "">>

(* --------------------------- one-time tokens --------------------------- *)
\* generate_verification_token(): a random token, never one generated before
generate_verification_token == nextTok
hash_token(t) == <<"sha256", t>>
\* a token column that holds None
NoHash == <<"None", 0>>
\* the one-time tokens a caller may present: every one that can be generated
OneTimeTokens == 1..MaxTokens

(* ----------------------------- token codec ----------------------------- *)
\* A token is its claims plus whether its signature verifies.
NoToken == [signed |-> FALSE, type |-> NULL, sub |-> NULL, user_id |-> NoId,
            role |-> NULL, exp |-> NoTime]
Garbage == [NoToken EXCEPT !.type = "garbage"]

create_access_token(sub, role, user_id, t) ==
    [signed |-> TRUE, type |-> "access", sub |-> sub, user_id |-> user_id,
     role |-> role, exp |-> t + ACCESS_TOKEN_EXPIRE_MINUTES]

create_refresh_token(sub, user_id, t) ==
    [signed |-> TRUE, type |-> "refresh", sub |-> sub, user_id |-> user_id,
     role |-> NULL, exp |-> t + REFRESH_TOKEN_EXPIRE_DAYS * MinutesPerDay]

\* decode(token) -> claims | invalid: TRUE iff the claims are returned.
Decodes(tok, t) == tok.signed /\ tok.exp >= t
decode_token(tok, t) == IF Decodes(tok, t) THEN tok ELSE NoToken

(* ------------------------------ storage ------------------------------- *)
Ids == 1..MaxUsers
UserIds == DOMAIN users

\* db.query(User).filter(User.email == email).first(): NoId when no row matches
UserByEmail(email) ==
    LET hit == {i \in UserIds : users[i].email = email}
    IN  IF hit = {} THEN NoId ELSE CHOOSE i \in hit : \A j \in hit : i <= j

\* UNIQUE(users.email), UNIQUE(users.firebase_uid): may the row be written?
\* NULLs never collide in a unique index.
EmailFree_NoIndex(tbl, id, email) == TRUE
EmailFree(tbl, id, email) ==
    \A j \in DOMAIN tbl : j # id => tbl[j].email # email
FirebaseUidFree(tbl, id, fuid) ==
    fuid = NULL \/ \A j \in DOMAIN tbl : j # id => tbl[j].firebase_uid # fuid
UniqueOk(tbl, id, row) ==
    EmailFree(tbl, id, row.email) /\ FirebaseUidFree(tbl, id, row.firebase_uid)

\* the default permissions of init_default_permissions
DefaultPermissions == {"read", "write", "delete", "manage_users", "manage_roles"}
init_default_permissions(cat) == cat \cup DefaultPermissions

\* the permission bundle a role receives, drawn from the catalog
HrBundle == {"read", "write", "manage_users"}
RolePermissions_HrGetsAll(role, cat) ==
    IF role \in {"admin", "hr"} THEN cat
    ELSE cat \cap {"read"}
RolePermissions(role, cat) ==
    IF role = "admin" THEN cat
    ELSE IF role = "hr" THEN cat \cap HrBundle
    ELSE cat \cap {"read"}

\* User(...) as signup builds it
SignupUser(email, role, password, fuid, cat, verification_token, t) ==
    [email |-> email, hashed_password |-> get_password_hash(password),
     role |-> role, is_active |-> TRUE, is_email_verified |-> FALSE,
     firebase_uid |-> fuid, last_login |-> NoTime,
     email_verification_token |-> hash_token(verification_token),
     email_verification_expire |->
         t + VERIFICATION_EXPIRE_HOURS * MinutesPerHour,
     reset_password_token |-> NoHash, reset_password_expire |-> NoTime,
     permissions |-> RolePermissions(role, cat)]

\* User(...) as firebase_login builds it
FirebaseUser(email, fuid) ==
    [email |-> email, hashed_password |-> NoPassword,
     role |-> "user", is_active |-> TRUE, is_email_verified |-> TRUE,
     firebase_uid |-> fuid, last_login |-> NoTime,
     email_verification_token |-> NoHash, email_verification_expire |-> NoTime,
     reset_password_token |-> NoHash, reset_password_expire |-> NoTime,
     permissions |-> {}]

\* UserSession(...): expires_at = utcnow() + 7 days
NewSession_TokenNotStored(uid, token, t, ip) ==
    [user_id |-> uid, refresh_token |-> NoToken,
     expires_at |-> t + REFRESH_TOKEN_EXPIRE_DAYS * MinutesPerDay,
     ip_address |-> ip]
NewSession(uid, token, t, ip) ==
    [user_id |-> uid, refresh_token |-> token,
     expires_at |-> t + REFRESH_TOKEN_EXPIRE_DAYS * MinutesPerDay,
     ip_address |-> ip]

\* history bookkeeping: a new session of uid ends the watch on its old tokens
NotOf(tokens, uid) == {t \in tokens : t.user_id # uid}

SessionsOf(uid) == {k \in 1..Len(sessions) : sessions[k].user_id = uid}
SessionTokensOf(uid) == {sessions[k].refresh_token : k \in SessionsOf(uid)}
StoredTokens == {sessions[k].refresh_token : k \in 1..Len(sessions)}
Remove(seq, k) == SubSeq(seq, 1, k - 1) \o SubSeq(seq, k + 1, Len(seq))
\* db.query(UserSession).filter(UserSession.user_id == uid).delete()
DeleteSessionsOf_OldestOnly(ss, uid) ==
    LET hit == {k \in 1..Len(ss) : ss[k].user_id = uid}
    IN  IF hit = {} THEN ss
        ELSE Remove(ss, CHOOSE k \in hit : \A j \in hit : k <= j)
DeleteSessionsOf(ss, uid) == SelectSeq(ss, LAMBDA s : s.user_id # uid)
\* db.delete(user): the row, and by cascade its sessions
DeleteUserRow(tbl, uid) == [i \in DOMAIN tbl \ {uid} |-> tbl[i]]

(* -------------------------- identity resolver -------------------------- *)
Resolved(status, uid) == [status |-> status, uid |-> uid]

get_current_user_Inactive401(tok) ==
    LET payload == decode_token(tok, now)
        uid == UserByEmail(payload.sub)
    IN  IF ~Decodes(tok, now) \/ payload.type # "access"
            THEN Resolved(HTTP_401_UNAUTHORIZED, NoId)
        ELSE IF payload.sub = NULL THEN Resolved(HTTP_401_UNAUTHORIZED, NoId)
        ELSE IF uid = NoId THEN Resolved(HTTP_401_UNAUTHORIZED, NoId)
        ELSE IF ~users[uid].is_active THEN Resolved(HTTP_401_UNAUTHORIZED, NoId)
        ELSE Resolved(HTTP_200_OK, uid)
get_current_user_ByUserId(tok) ==
    LET payload == decode_token(tok, now)
        uid == IF payload.user_id \in UserIds THEN payload.user_id ELSE NoId
    IN  IF ~Decodes(tok, now) \/ payload.type # "access"
            THEN Resolved(HTTP_401_UNAUTHORIZED, NoId)
        ELSE IF payload.sub = NULL THEN Resolved(HTTP_401_UNAUTHORIZED, NoId)
        ELSE IF uid = NoId THEN Resolved(HTTP_401_UNAUTHORIZED, NoId)
        ELSE IF ~users[uid].is_active THEN Resolved(HTTP_403_FORBIDDEN, NoId)
        ELSE Resolved(HTTP_200_OK, uid)
get_current_user_AnyType(tok) ==
    LET payload == decode_token(tok, now)
        uid == UserByEmail(payload.sub)
    IN  IF ~Decodes(tok, now)
            THEN Resolved(HTTP_401_UNAUTHORIZED, NoId)
        ELSE IF payload.sub = NULL THEN Resolved(HTTP_401_UNAUTHORIZED, NoId)
        ELSE IF uid = NoId THEN Resolved(HTTP_401_UNAUTHORIZED, NoId)
        ELSE IF ~users[uid].is_active THEN Resolved(HTTP_403_FORBIDDEN, NoId)
        ELSE Resolved(HTTP_200_OK, uid)
get_current_user(tok) ==
    LET payload == decode_token(tok, now)
        uid == UserByEmail(payload.sub)
    IN  IF ~Decodes(tok, now) \/ payload.type # "access"
            THEN Resolved(HTTP_401_UNAUTHORIZED, NoId)
        ELSE IF payload.sub = NULL THEN Resolved(HTTP_401_UNAUTHORIZED, NoId)
        ELSE IF uid = NoId THEN Resolved(HTTP_401_UNAUTHORIZED, NoId)
        ELSE IF ~users[uid].is_active THEN Resolved(HTTP_403_FORBIDDEN, NoId)
        ELSE Resolved(HTTP_200_OK, uid)

get_current_active_user(tok) == get_current_user(tok)

(* -------------------------- authorization gate ------------------------- *)
\* role_checker / permission_checker: TRUE when current_user is returned,
\* FALSE when HTTP 403 is raised
role_checker_AdminAlways(current_user, allowed_roles) ==
    current_user.role \in allowed_roles \cup {"admin"}
role_checker(current_user, allowed_roles) ==
    current_user.role \in allowed_roles

permission_checker_AllOf(current_user, required_permissions) ==
    \A perm \in required_permissions : perm \in current_user.permissions
permission_checker(current_user, required_permissions) ==
    \E perm \in required_permissions : perm \in current_user.permissions

require_role_FromClaims(tok, allowed_roles) ==
    LET cur == get_current_active_user(tok)
    IN  IF cur.status # HTTP_200_OK THEN cur
        ELSE IF ~role_checker([role |-> tok.role], allowed_roles)
            THEN Resolved(HTTP_403_FORBIDDEN, NoId)
        ELSE cur
require_role(tok, allowed_roles) ==
    LET cur == get_current_active_user(tok)
    IN  IF cur.status # HTTP_200_OK THEN cur
        ELSE IF ~role_checker(users[cur.uid], allowed_roles)
            THEN Resolved(HTTP_403_FORBIDDEN, NoId)
        ELSE cur

require_permission(tok, required_permissions) ==
    LET cur == get_current_active_user(tok)
    IN  IF cur.status # HTTP_200_OK THEN cur
        ELSE IF ~permission_checker(users[cur.uid], required_permissions)
            THEN Resolved(HTTP_403_FORBIDDEN, NoId)
        ELSE cur

(* ------------------------------- inputs -------------------------------- *)
\* the clock steps: just past an access token's life, or a session's life
TickSteps == {ACCESS_TOKEN_EXPIRE_MINUTES + 1,
              REFRESH_TOKEN_EXPIRE_DAYS * MinutesPerDay}
\* instants the clock can show: sums of at most MaxTicks steps
Times == {a * (ACCESS_TOKEN_EXPIRE_MINUTES + 1)
            + b * REFRESH_TOKEN_EXPIRE_DAYS * MinutesPerDay :
          a \in 0..MaxTicks, b \in 0..MaxTicks}
PastTimes == {t \in Times : t <= now}
\* access tokens are presented fresh (signed now) or old (signed at 0)
IssueTimes == {0, now}

\* tokens a caller may present. The signing secret has a public default
\* (config.py:7), so any claims may arrive signed: with or without a subject,
\* with a role claim the stored user never had. Garbage does not decode.
AccessInputs ==
    {create_access_token(e, "admin", 1, t) :
        e \in Emails \cup {NULL}, t \in IssueTimes}
\* refresh tokens: those the system has issued (stored, or revoked since),
\* one never issued, and one without a user_id claim
RefreshInputs ==
    StoredTokens \cup revoked
    \cup {create_refresh_token("a@b.com", 1, 0),
          create_refresh_token("a@b.com", NoId, now)}
TokenInputs == AccessInputs \cup RefreshInputs \cup {Garbage}
\* the bearer tokens sent to the endpoints that take further parameters
BearerInputs == AccessInputs \cup {Garbage}

\* the role field of a signup body; NULL when the body has none, and pydantic
\* fills in UserBase.role's default
SignupRoles == {NULL, "user", "admin"}
UserBaseRole_Candidate(role_field) ==
    IF role_field = NULL THEN "candidate" ELSE role_field
UserBaseRole(role_field) == IF role_field = NULL THEN "user" ELSE role_field

\* permission_names bodies sent to PUT /users/{id}/permissions
PermissionInputs ==
    {{}, {"delete", "manage_roles"}, {"read", "approve"}}

\* what verify_firebase_token returns; InvalidAssertion stands for its raising
\* (Firebase not initialised, or verify_id_token rejects the id token)
FirebaseEmails == {"c@d.com"}
InvalidAssertion == [valid |-> FALSE, email |-> NULL, uid |-> NULL]
FirebaseAssertions ==
    {[valid |-> TRUE, email |-> e, uid |-> f] :
        e \in FirebaseEmails \cup {NULL}, f \in FirebaseUids}
    \cup {InvalidAssertion}

\* create_firebase_user: the uid of the account the provider has just created,
\* which no row can hold yet, or None (not initialised, or the call failed)
create_firebase_user(tbl) ==
    LET fresh == {f \in FirebaseUids :
                     \A j \in DOMAIN tbl : tbl[j].firebase_uid # f}
    IN  {NULL} \cup (IF fresh = {} THEN {}
                     ELSE {CHOOSE f \in fresh : \A g \in fresh :
                              (f = "fb1") \/ (g # "fb1")})

(* ------------------------------ responses ------------------------------ *)
\* what the caller sent, as far as the claims read it
Req(token, email, target) ==
    [token |-> token, email |-> email, target |-> target, one_time |-> 0]
OneTimeReq(t) == [Req(NoToken, NULL, NoId) EXCEPT !.one_time = t]
TokReq(token) == Req(token, NULL, NoId)
EmailReq(email) == Req(NoToken, email, NoId)
AdminReq(token, target) == Req(token, NULL, target)

\* a message handed to the mail collaborator
Mail(to, kind, token) == [to |-> to, kind |-> kind, token |-> token]
NoMail == Mail(NULL, NULL, 0)
\* send_email: the message goes out, or fm.send_message raises and the
\* handler's `except Exception` swallows it
send_email(m) == {m, NoMail}

\* a response, and with it the message the request had sent (mail)
Resp(op, req, status, uid, access, refresh) ==
    [op |-> op, req |-> req, status |-> status, uid |-> uid,
     access_token |-> access, refresh_token |-> refresh, mail |-> NoMail]
Mailed(r, m) == [r EXCEPT !.mail = m]
Fail(op, req, status) == Resp(op, req, status, NoId, NoToken, NoToken)
Done(op, req, uid) == Resp(op, req, HTTP_200_OK, uid, NoToken, NoToken)
NoResp == Resp("none", Req(NoToken, NULL, NoId), HTTP_200_OK, NoId, NoToken, NoToken)
\* a handler starts when the previous response has been delivered and, in
\* Spec, no other request is between two of its commits
Idle == resp = NoResp /\ inflight = <<>>

(* ------------------------------ handlers ------------------------------- *)
(* POST /api/auth/signup *)
Signup_MailFailureFails(email, role_field, password, fuid) ==
    LET cat == init_default_permissions(catalog)
        role == UserBaseRole(role_field)
        uid == nextUid
        verification_token == generate_verification_token
        row == SignupUser(email, role, password, fuid, cat,
                          verification_token, now)
        access == create_access_token(email, role, uid, now)
        refresh == create_refresh_token(email, uid, now)
    IN  /\ Idle
        /\ fuid \in create_firebase_user(users)
        /\ catalog' = cat
        /\ IF UserByEmail(email) # NoId
           THEN /\ resp' = Fail("signup", EmailReq(email), HTTP_400_BAD_REQUEST)
                /\ UNCHANGED <<users, nextUid, sessions, revoked, nextTok>>
           ELSE IF ~UniqueOk(users, uid, row)
           THEN /\ resp' = Fail("signup", EmailReq(email),
                                HTTP_500_INTERNAL_SERVER_ERROR)
                /\ UNCHANGED <<users, nextUid, sessions, revoked, nextTok>>
           ELSE /\ nextUid <= MaxUsers
                /\ nextTok <= MaxTokens
                /\ Len(sessions) < MaxSessions
                /\ users' = (uid :> row) @@ users
                /\ nextUid' = nextUid + 1
                /\ nextTok' = nextTok + 1
                /\ \E m \in send_email(Mail(email, "verification",
                                             verification_token)) :
                      IF m = NoMail
                      THEN /\ resp' = Fail("signup", EmailReq(email),
                                           HTTP_500_INTERNAL_SERVER_ERROR)
                           /\ UNCHANGED <<sessions, revoked>>
                      ELSE /\ sessions' = Append(sessions,
                                  NewSession(uid, refresh, now, NULL))
                           /\ revoked' = NotOf(revoked, uid)
                           /\ resp' = Mailed(Resp("signup", EmailReq(email),
                                                  HTTP_201_CREATED, uid,
                                                  access, refresh), m)
        /\ UNCHANGED <<now, ticks, deleted, inflight>>
Signup(email, role_field, password, fuid) ==
    LET cat == init_default_permissions(catalog)
        role == UserBaseRole(role_field)
        uid == nextUid
        verification_token == generate_verification_token
        row == SignupUser(email, role, password, fuid, cat,
                          verification_token, now)
        access == create_access_token(email, role, uid, now)
        refresh == create_refresh_token(email, uid, now)
    IN  /\ Idle
        /\ fuid \in create_firebase_user(users)
        /\ catalog' = cat
        /\ IF UserByEmail(email) # NoId
           THEN /\ resp' = Fail("signup", EmailReq(email), HTTP_400_BAD_REQUEST)
                /\ UNCHANGED <<users, nextUid, sessions, revoked, nextTok>>
           ELSE IF ~UniqueOk(users, uid, row)
           THEN /\ resp' = Fail("signup", EmailReq(email),
                                HTTP_500_INTERNAL_SERVER_ERROR)
                /\ UNCHANGED <<users, nextUid, sessions, revoked, nextTok>>
           ELSE /\ nextUid <= MaxUsers
                /\ nextTok <= MaxTokens
                /\ Len(sessions) < MaxSessions
                /\ users' = (uid :> row) @@ users
                /\ nextUid' = nextUid + 1
                /\ nextTok' = nextTok + 1
                /\ sessions' = Append(sessions, NewSession(uid, refresh, now, NULL))
                /\ revoked' = NotOf(revoked, uid)
                /\ \E m \in send_email(Mail(email, "verification",
                                             verification_token)) :
                      resp' = Mailed(Resp("signup", EmailReq(email),
                                          HTTP_201_CREATED, uid, access, refresh),
                                     m)
        /\ UNCHANGED <<now, ticks, deleted, inflight>>

(* POST /api/auth/login *)
Login_StampsFirst(email, password) ==
    LET uid == UserByEmail(email)
        access == create_access_token(email, users[uid].role, uid, now)
        refresh == create_refresh_token(email, uid, now)
    IN  /\ Idle
        /\ IF uid = NoId
           THEN /\ resp' = Fail("login", EmailReq(email), HTTP_401_UNAUTHORIZED)
                /\ UNCHANGED <<users, sessions, revoked>>
           ELSE IF ~verify_password(password, users[uid].hashed_password)
           THEN /\ resp' = Fail("login", EmailReq(email), HTTP_401_UNAUTHORIZED)
                /\ users' = [users EXCEPT ![uid].last_login = now]
                /\ UNCHANGED <<sessions, revoked>>
           ELSE IF ~users[uid].is_active
           THEN /\ resp' = Fail("login", EmailReq(email), HTTP_403_FORBIDDEN)
                /\ UNCHANGED <<users, sessions, revoked>>
           ELSE /\ Len(sessions) < MaxSessions
                /\ users' = [users EXCEPT ![uid].last_login = now]
                /\ sessions' = Append(sessions, NewSession(uid, refresh, now, "ip"))
                /\ revoked' = NotOf(revoked, uid)
                /\ resp' = Resp("login", EmailReq(email), HTTP_200_OK,
                                uid, access, refresh)
        /\ UNCHANGED <<nextUid, catalog, now, ticks, nextTok, deleted, inflight>>
Login(email, password) ==
    LET uid == UserByEmail(email)
        access == create_access_token(email, users[uid].role, uid, now)
        refresh == create_refresh_token(email, uid, now)
    IN  /\ Idle
        /\ IF uid = NoId \/ ~verify_password(password, users[uid].hashed_password)
           THEN /\ resp' = Fail("login", EmailReq(email), HTTP_401_UNAUTHORIZED)
                /\ UNCHANGED <<users, sessions, revoked>>
           ELSE IF ~users[uid].is_active
           THEN /\ resp' = Fail("login", EmailReq(email), HTTP_403_FORBIDDEN)
                /\ UNCHANGED <<users, sessions, revoked>>
           ELSE /\ Len(sessions) < MaxSessions
                /\ users' = [users EXCEPT ![uid].last_login = now]
                /\ sessions' = Append(sessions, NewSession(uid, refresh, now, "ip"))
                /\ revoked' = NotOf(revoked, uid)
                /\ resp' = Resp("login", EmailReq(email), HTTP_200_OK,
                                uid, access, refresh)
        /\ UNCHANGED <<nextUid, catalog, now, ticks, nextTok, deleted, inflight>>

(* POST /api/auth/firebase-login *)
\* every exception inside the handler's try block, the HTTPException for a
\* missing email and a failed commit included, leaves through
\* `except Exception` as a 401
FirebaseLogin_TrustsUnverified(a) ==
    LET uid0 == UserByEmail(a.email)
        isNew == uid0 = NoId
        uid == IF isNew THEN nextUid ELSE uid0
        row == IF isNew THEN FirebaseUser(a.email, a.uid)
               ELSE IF users[uid0].firebase_uid = NULL
                    THEN [users[uid0] EXCEPT !.firebase_uid = a.uid]
               ELSE users[uid0]
        access == create_access_token(a.email, row.role, uid, now)
        refresh == create_refresh_token(a.email, uid, now)
    IN  /\ Idle
        /\ IF a.email = NULL
           THEN /\ resp' = Fail("firebase_login", EmailReq(a.email),
                                HTTP_401_UNAUTHORIZED)
                /\ UNCHANGED <<users, nextUid, sessions, revoked>>
           ELSE IF ~UniqueOk(users, uid, row)
           THEN /\ resp' = Fail("firebase_login", EmailReq(a.email),
                                HTTP_401_UNAUTHORIZED)
                /\ UNCHANGED <<users, nextUid, sessions, revoked>>
           ELSE /\ isNew => nextUid <= MaxUsers
                /\ Len(sessions) < MaxSessions
                /\ users' = (uid :> [row EXCEPT !.last_login = now]) @@ users
                /\ nextUid' = IF isNew THEN nextUid + 1 ELSE nextUid
                /\ sessions' = Append(sessions, NewSession(uid, refresh, now, NULL))
                /\ revoked' = NotOf(revoked, uid)
                /\ resp' = Resp("firebase_login", EmailReq(a.email), HTTP_200_OK,
                                uid, access, refresh)
        /\ UNCHANGED <<catalog, now, ticks, nextTok, deleted, inflight>>
FirebaseLogin(a) ==
    LET uid0 == UserByEmail(a.email)
        isNew == uid0 = NoId
        uid == IF isNew THEN nextUid ELSE uid0
        row == IF isNew THEN FirebaseUser(a.email, a.uid)
               ELSE IF users[uid0].firebase_uid = NULL
                    THEN [users[uid0] EXCEPT !.firebase_uid = a.uid]
               ELSE users[uid0]
        access == create_access_token(a.email, row.role, uid, now)
        refresh == create_refresh_token(a.email, uid, now)
    IN  /\ Idle
        /\ IF ~a.valid \/ a.email = NULL
           THEN /\ resp' = Fail("firebase_login", EmailReq(a.email),
                                HTTP_401_UNAUTHORIZED)
                /\ UNCHANGED <<users, nextUid, sessions, revoked>>
           ELSE IF ~UniqueOk(users, uid, row)
           THEN /\ resp' = Fail("firebase_login", EmailReq(a.email),
                                HTTP_401_UNAUTHORIZED)
                /\ UNCHANGED <<users, nextUid, sessions, revoked>>
           ELSE /\ isNew => nextUid <= MaxUsers
                /\ Len(sessions) < MaxSessions
                /\ users' = (uid :> [row EXCEPT !.last_login = now]) @@ users
                /\ nextUid' = IF isNew THEN nextUid + 1 ELSE nextUid
                /\ sessions' = Append(sessions, NewSession(uid, refresh, now, NULL))
                /\ revoked' = NotOf(revoked, uid)
                /\ resp' = Resp("firebase_login", EmailReq(a.email), HTTP_200_OK,
                                uid, access, refresh)
        /\ UNCHANGED <<catalog, now, ticks, nextTok, deleted, inflight>>

(* POST /api/auth/refresh *)
\* the session row the refresh query finds, 0 when none
FindValidSession_Inclusive(tok) ==
    LET hit == {k \in 1..Len(sessions) :
                    /\ sessions[k].refresh_token = tok
                    /\ sessions[k].user_id = tok.user_id
                    /\ sessions[k].expires_at >= now}
    IN  IF hit = {} THEN 0 ELSE CHOOSE k \in hit : \A j \in hit : k <= j
FindValidSession(tok) ==
    LET hit == {k \in 1..Len(sessions) :
                    /\ sessions[k].refresh_token = tok
                    /\ sessions[k].user_id = tok.user_id
                    /\ sessions[k].expires_at > now}
    IN  IF hit = {} THEN 0 ELSE CHOOSE k \in hit : \A j \in hit : k <= j

RefreshStatus(tok) ==
    IF ~Decodes(tok, now) \/ decode_token(tok, now).type # "refresh"
        THEN HTTP_401_UNAUTHORIZED
    ELSE IF FindValidSession(tok) = 0 THEN HTTP_401_UNAUTHORIZED
    ELSE HTTP_200_OK

Refresh_SlidesExpiry(tok) ==
    LET k == FindValidSession(tok)
        uid == sessions[k].user_id
    IN  /\ Idle
        /\ IF RefreshStatus(tok) # HTTP_200_OK
           THEN /\ resp' = Fail("refresh", TokReq(tok), RefreshStatus(tok))
                /\ UNCHANGED sessions
           ELSE /\ resp' = Resp("refresh", TokReq(tok), HTTP_200_OK, uid,
                                create_access_token(users[uid].email,
                                                    users[uid].role, uid, now),
                                NoToken)
                /\ sessions' = [sessions EXCEPT ![k].expires_at =
                        now + REFRESH_TOKEN_EXPIRE_DAYS * MinutesPerDay]
        /\ UNCHANGED <<users, nextUid, catalog, now, ticks, nextTok,
                       revoked, deleted, inflight>>
Refresh_Rotates(tok) ==
    LET k == FindValidSession(tok)
        uid == sessions[k].user_id
        fresh == create_refresh_token(users[uid].email, uid, now)
    IN  /\ Idle
        /\ IF RefreshStatus(tok) # HTTP_200_OK
           THEN /\ resp' = Fail("refresh", TokReq(tok), RefreshStatus(tok))
                /\ UNCHANGED <<sessions, revoked>>
           ELSE /\ resp' = Resp("refresh", TokReq(tok), HTTP_200_OK, uid,
                                create_access_token(users[uid].email,
                                                    users[uid].role, uid, now),
                                fresh)
                /\ sessions' = [sessions EXCEPT ![k].refresh_token = fresh]
                /\ revoked' = revoked \cup {tok}
        /\ UNCHANGED <<users, nextUid, catalog, now, ticks, nextTok,
                       deleted, inflight>>
Refresh(tok) ==
    LET k == FindValidSession(tok)
        uid == sessions[k].user_id
    IN  /\ Idle
        /\ IF RefreshStatus(tok) # HTTP_200_OK
           THEN resp' = Fail("refresh", TokReq(tok), RefreshStatus(tok))
           ELSE resp' = Resp("refresh", TokReq(tok), HTTP_200_OK, uid,
                             create_access_token(users[uid].email,
                                                 users[uid].role, uid, now),
                             NoToken)
        /\ UNCHANGED <<users, nextUid, catalog, sessions, now, ticks, nextTok,
                       revoked, deleted, inflight>>

(* POST /api/auth/logout *)
Logout(tok) ==
    LET cur == get_current_user(tok)
    IN  /\ Idle
        /\ IF cur.status # HTTP_200_OK
           THEN /\ resp' = Fail("logout", TokReq(tok), cur.status)
                /\ UNCHANGED <<sessions, revoked>>
           ELSE /\ sessions' = DeleteSessionsOf(sessions, cur.uid)
                /\ revoked' = revoked \cup SessionTokensOf(cur.uid)
                /\ resp' = Done("logout", TokReq(tok), cur.uid)
        /\ UNCHANGED <<users, nextUid, catalog, now, ticks, nextTok, deleted, inflight>>

(* GET /api/users/me *)
GetMe(tok) ==
    LET cur == get_current_active_user(tok)
    IN  /\ Idle
        /\ resp' = Resp("get_me", TokReq(tok), cur.status, cur.uid,
                        NoToken, NoToken)
        /\ UNCHANGED <<users, nextUid, catalog, sessions, now, ticks, nextTok,
                       revoked, deleted, inflight>>

(* DELETE /api/users/me *)
DeleteAccount_NoCascade(tok) ==
    LET cur == get_current_active_user(tok)
    IN  /\ Idle
        /\ IF cur.status # HTTP_200_OK
           THEN /\ resp' = Fail("delete_account", TokReq(tok), cur.status)
                /\ UNCHANGED <<users, revoked, deleted>>
           ELSE /\ users' = DeleteUserRow(users, cur.uid)
                /\ revoked' = revoked \cup SessionTokensOf(cur.uid)
                /\ deleted' = deleted \cup {users[cur.uid].email}
                /\ resp' = Done("delete_account", TokReq(tok), cur.uid)
        /\ UNCHANGED <<nextUid, catalog, sessions, now, ticks, nextTok, inflight>>
DeleteAccount(tok) ==
    LET cur == get_current_active_user(tok)
    IN  /\ Idle
        /\ IF cur.status # HTTP_200_OK
           THEN /\ resp' = Fail("delete_account", TokReq(tok), cur.status)
                /\ UNCHANGED <<users, sessions, revoked, deleted>>
           ELSE /\ users' = DeleteUserRow(users, cur.uid)
                /\ sessions' = DeleteSessionsOf(sessions, cur.uid)
                /\ revoked' = revoked \cup SessionTokensOf(cur.uid)
                /\ deleted' = deleted \cup {users[cur.uid].email}
                /\ resp' = Done("delete_account", TokReq(tok), cur.uid)
        /\ UNCHANGED <<nextUid, catalog, now, ticks, nextTok, inflight>>

(* GET /api/admin/users *)
GetAllUsers(tok) ==
    LET cur == require_role(tok, {"admin", "hr"})
    IN  /\ Idle
        /\ resp' = Resp("get_all_users", TokReq(tok), cur.status, cur.uid,
                        NoToken, NoToken)
        /\ UNCHANGED <<users, nextUid, catalog, sessions, now, ticks, nextTok,
                       revoked, deleted, inflight>>

(* PUT /api/admin/users/{user_id}/role *)
UpdateUserRole_RoleGated(tok, user_id, role) ==
    LET cur == require_role(tok, {"admin"})
        req == AdminReq(tok, user_id)
    IN  /\ Idle
        /\ IF cur.status # HTTP_200_OK
           THEN /\ resp' = Fail("update_user_role", req, cur.status)
                /\ UNCHANGED users
           ELSE IF user_id \notin UserIds
           THEN /\ resp' = Fail("update_user_role", req, HTTP_404_NOT_FOUND)
                /\ UNCHANGED users
           ELSE /\ users' = [users EXCEPT
                                ![user_id].role = role,
                                ![user_id].permissions =
                                    RolePermissions(role, catalog)]
                /\ resp' = Done("update_user_role", req, cur.uid)
        /\ UNCHANGED <<nextUid, catalog, sessions, now, ticks, nextTok, revoked, deleted, inflight>>
UpdateUserRole(tok, user_id, role) ==
    LET cur == require_permission(tok, {"manage_roles"})
        req == AdminReq(tok, user_id)
    IN  /\ Idle
        /\ IF cur.status # HTTP_200_OK
           THEN /\ resp' = Fail("update_user_role", req, cur.status)
                /\ UNCHANGED users
           ELSE IF user_id \notin UserIds
           THEN /\ resp' = Fail("update_user_role", req, HTTP_404_NOT_FOUND)
                /\ UNCHANGED users
           ELSE /\ users' = [users EXCEPT
                                ![user_id].role = role,
                                ![user_id].permissions =
                                    RolePermissions(role, catalog)]
                /\ resp' = Done("update_user_role", req, cur.uid)
        /\ UNCHANGED <<nextUid, catalog, sessions, now, ticks, nextTok, revoked, deleted, inflight>>

(* PUT /api/admin/users/{user_id}/permissions *)
UpdateUserPermissions_Merges(tok, user_id, permission_names) ==
    LET cur == require_permission(tok, {"manage_users"})
        req == AdminReq(tok, user_id)
    IN  /\ Idle
        /\ IF cur.status # HTTP_200_OK
           THEN /\ resp' = Fail("update_user_permissions", req, cur.status)
                /\ UNCHANGED users
           ELSE IF user_id \notin UserIds
           THEN /\ resp' = Fail("update_user_permissions", req, HTTP_404_NOT_FOUND)
                /\ UNCHANGED users
           ELSE /\ users' = [users EXCEPT ![user_id].permissions =
                                users[user_id].permissions
                                \cup (catalog \cap permission_names)]
                /\ resp' = Done("update_user_permissions", req, cur.uid)
        /\ UNCHANGED <<nextUid, catalog, sessions, now, ticks, nextTok, revoked, deleted, inflight>>
UpdateUserPermissions(tok, user_id, permission_names) ==
    LET cur == require_permission(tok, {"manage_users"})
        req == AdminReq(tok, user_id)
    IN  /\ Idle
        /\ IF cur.status # HTTP_200_OK
           THEN /\ resp' = Fail("update_user_permissions", req, cur.status)
                /\ UNCHANGED users
           ELSE IF user_id \notin UserIds
           THEN /\ resp' = Fail("update_user_permissions", req, HTTP_404_NOT_FOUND)
                /\ UNCHANGED users
           ELSE /\ users' = [users EXCEPT ![user_id].permissions =
                                catalog \cap permission_names]
                /\ resp' = Done("update_user_permissions", req, cur.uid)
        /\ UNCHANGED <<nextUid, catalog, sessions, now, ticks, nextTok, revoked, deleted, inflight>>

(* PUT /api/admin/users/{user_id}/status *)
ToggleUserStatus(tok, user_id, is_active) ==
    LET cur == require_role(tok, {"admin"})
        req == AdminReq(tok, user_id)
    IN  /\ Idle
        /\ IF cur.status # HTTP_200_OK
           THEN /\ resp' = Fail("toggle_user_status", req, cur.status)
                /\ UNCHANGED users
           ELSE IF user_id \notin UserIds
           THEN /\ resp' = Fail("toggle_user_status", req, HTTP_404_NOT_FOUND)
                /\ UNCHANGED users
           ELSE /\ users' = [users EXCEPT ![user_id].is_active = is_active]
                /\ resp' = Done("toggle_user_status", req, cur.uid)
        /\ UNCHANGED <<nextUid, catalog, sessions, now, ticks, nextTok, revoked, deleted, inflight>>

(* DELETE /api/admin/users/{user_id} *)
DeleteUser(tok, user_id) ==
    LET cur == require_permission(tok, {"delete"})
        req == AdminReq(tok, user_id)
    IN  /\ Idle
        /\ IF cur.status # HTTP_200_OK
           THEN /\ resp' = Fail("delete_user", req, cur.status)
                /\ UNCHANGED <<users, sessions, revoked, deleted>>
           ELSE IF cur.uid = user_id
           THEN /\ resp' = Fail("delete_user", req, HTTP_400_BAD_REQUEST)
                /\ UNCHANGED <<users, sessions, revoked, deleted>>
           ELSE IF user_id \notin UserIds
           THEN /\ resp' = Fail("delete_user", req, HTTP_404_NOT_FOUND)
                /\ UNCHANGED <<users, sessions, revoked, deleted>>
           ELSE /\ users' = DeleteUserRow(users, user_id)
                /\ sessions' = DeleteSessionsOf(sessions, user_id)
                /\ revoked' = revoked \cup SessionTokensOf(user_id)
                /\ deleted' = deleted \cup {users[user_id].email}
                /\ resp' = Done("delete_user", req, cur.uid)
        /\ UNCHANGED <<nextUid, catalog, now, ticks, nextTok, inflight>>

(* GET /api/auth/verify-email/{token} *)
\* the row the token query finds, NoId when none
FindByVerificationToken_IgnoresExpiry(token) ==
    LET hit == {i \in UserIds :
                    users[i].email_verification_token = hash_token(token)}
    IN  IF hit = {} THEN NoId ELSE CHOOSE i \in hit : \A j \in hit : i <= j
FindByVerificationToken(token) ==
    LET hit == {i \in UserIds :
                    /\ users[i].email_verification_token = hash_token(token)
                    /\ users[i].email_verification_expire > now}
    IN  IF hit = {} THEN NoId ELSE CHOOSE i \in hit : \A j \in hit : i <= j

VerifyEmail_KeepsToken(token) ==
    LET uid == FindByVerificationToken(token)
    IN  /\ Idle
        /\ IF uid = NoId
           THEN /\ resp' = Fail("verify_email", OneTimeReq(token),
                                HTTP_400_BAD_REQUEST)
                /\ UNCHANGED users
           ELSE /\ users' = [users EXCEPT ![uid].is_email_verified = TRUE]
                /\ resp' = Done("verify_email", OneTimeReq(token), uid)
        /\ UNCHANGED <<nextUid, catalog, sessions, now, ticks, nextTok,
                       revoked, deleted, inflight>>
VerifyEmail(token) ==
    LET uid == FindByVerificationToken(token)
    IN  /\ Idle
        /\ IF uid = NoId
           THEN /\ resp' = Fail("verify_email", OneTimeReq(token),
                                HTTP_400_BAD_REQUEST)
                /\ UNCHANGED users
           ELSE /\ users' = [users EXCEPT
                                ![uid].is_email_verified = TRUE,
                                ![uid].email_verification_token = NoHash,
                                ![uid].email_verification_expire = NoTime]
                /\ resp' = Done("verify_email", OneTimeReq(token), uid)
        /\ UNCHANGED <<nextUid, catalog, sessions, now, ticks, nextTok,
                       revoked, deleted, inflight>>

(* POST /api/auth/forgot-password *)
\* the body is the same message in both branches; the response names no user
ForgotPassword_Reveals(email) ==
    LET uid == UserByEmail(email)
        reset_token == generate_verification_token
    IN  /\ Idle
        /\ IF uid = NoId
           THEN /\ resp' = Fail("forgot_password", EmailReq(email),
                                HTTP_404_NOT_FOUND)
                /\ UNCHANGED <<users, nextTok>>
           ELSE /\ nextTok <= MaxTokens
                /\ nextTok' = nextTok + 1
                /\ users' = [users EXCEPT
                                ![uid].reset_password_token =
                                    hash_token(reset_token),
                                ![uid].reset_password_expire =
                                    now + RESET_EXPIRE_HOURS * MinutesPerHour]
                /\ \E m \in send_email(Mail(email, "reset", reset_token)) :
                      resp' = Mailed(Done("forgot_password", EmailReq(email),
                                          NoId), m)
        /\ UNCHANGED <<nextUid, catalog, sessions, now, ticks,
                       revoked, deleted, inflight>>
ForgotPassword(email) ==
    LET uid == UserByEmail(email)
        reset_token == generate_verification_token
    IN  /\ Idle
        /\ IF uid = NoId
           THEN /\ resp' = Done("forgot_password", EmailReq(email), NoId)
                /\ UNCHANGED <<users, nextTok>>
           ELSE /\ nextTok <= MaxTokens
                /\ nextTok' = nextTok + 1
                /\ users' = [users EXCEPT
                                ![uid].reset_password_token =
                                    hash_token(reset_token),
                                ![uid].reset_password_expire =
                                    now + RESET_EXPIRE_HOURS * MinutesPerHour]
                /\ \E m \in send_email(Mail(email, "reset", reset_token)) :
                      resp' = Mailed(Done("forgot_password", EmailReq(email),
                                          NoId), m)
        /\ UNCHANGED <<nextUid, catalog, sessions, now, ticks,
                       revoked, deleted, inflight>>

(* POST /api/auth/reset-password *)
FindByResetToken(token) ==
    LET hit == {i \in UserIds :
                    /\ users[i].reset_password_token = hash_token(token)
                    /\ users[i].reset_password_expire > now}
    IN  IF hit = {} THEN NoId ELSE CHOOSE i \in hit : \A j \in hit : i <= j

ResetPassword(token, new_password) ==
    LET uid == FindByResetToken(token)
    IN  /\ Idle
        /\ IF uid = NoId
           THEN /\ resp' = Fail("reset_password", OneTimeReq(token),
                                HTTP_400_BAD_REQUEST)
                /\ UNCHANGED users
           ELSE /\ users' = [users EXCEPT
                                ![uid].hashed_password =
                                    get_password_hash(new_password),
                                ![uid].reset_password_token = NoHash,
                                ![uid].reset_password_expire = NoTime]
                /\ resp' = Done("reset_password", OneTimeReq(token), uid)
        /\ UNCHANGED <<nextUid, catalog, sessions, now, ticks, nextTok,
                       revoked, deleted, inflight>>

(* PUT /api/users/me: name, phone and updated_at are not part of the state *)
UpdateProfile(tok) ==
    LET cur == get_current_active_user(tok)
    IN  /\ Idle
        /\ resp' = Resp("update_profile", TokReq(tok), cur.status, cur.uid,
                        NoToken, NoToken)
        /\ UNCHANGED <<users, nextUid, catalog, sessions, now, ticks, nextTok,
                       revoked, deleted, inflight>>

(* PUT /api/users/change-password *)
ChangePassword(tok, current_password, new_password) ==
    LET cur == get_current_active_user(tok)
    IN  /\ Idle
        /\ IF cur.status # HTTP_200_OK
           THEN /\ resp' = Fail("change_password", TokReq(tok), cur.status)
                /\ UNCHANGED users
           ELSE IF ~verify_password(current_password,
                                    users[cur.uid].hashed_password)
           THEN /\ resp' = Fail("change_password", TokReq(tok),
                                HTTP_400_BAD_REQUEST)
                /\ UNCHANGED users
           ELSE /\ users' = [users EXCEPT ![cur.uid].hashed_password =
                                get_password_hash(new_password)]
                /\ resp' = Done("change_password", TokReq(tok), cur.uid)
        /\ UNCHANGED <<nextUid, catalog, sessions, now, ticks, nextTok,
                       revoked, deleted, inflight>>

(* ------------------- handlers, one commit at a time ------------------- *)
\* A request between two of its commits: the handler's local variables.
InFlight(op, pc, email, row, uid, token) ==
    [op |-> op, pc |-> pc, email |-> email, row |-> row, uid |-> uid,
     token |-> token]
CanStart == resp = NoResp /\ Len(inflight) < MaxInflight
AtStep(k, op, pc) ==
    /\ resp = NoResp
    /\ k \in 1..Len(inflight)
    /\ inflight[k].op = op
    /\ inflight[k].pc = pc

\* signup up to its first db.commit() of a user: seeding, the existence
\* check, and the User object
SignupBegin(email, role_field, password, fuid) ==
    LET cat == init_default_permissions(catalog)
        verification_token == generate_verification_token
        row == SignupUser(email, UserBaseRole(role_field), password, fuid, cat,
                          verification_token, now)
    IN  /\ CanStart
        /\ fuid \in create_firebase_user(users)
        /\ catalog' = cat
        /\ IF UserByEmail(email) # NoId
           THEN /\ resp' = Fail("signup", EmailReq(email), HTTP_400_BAD_REQUEST)
                /\ UNCHANGED <<inflight, nextTok>>
           ELSE /\ nextTok <= MaxTokens
                /\ nextTok' = nextTok + 1
                /\ inflight' = Append(inflight,
                        InFlight("signup", "commit_user", email, row, NoId,
                                 verification_token))
                /\ UNCHANGED resp
        /\ UNCHANGED <<users, nextUid, sessions, now, ticks, revoked, deleted>>

\* db.add(user); db.commit(): the unique indexes decide
SignupCommitUser(k) ==
    LET r == inflight[k]
    IN  /\ AtStep(k, "signup", "commit_user")
        /\ IF ~UniqueOk(users, nextUid, r.row)
           THEN /\ resp' = Fail("signup", EmailReq(r.email),
                                HTTP_500_INTERNAL_SERVER_ERROR)
                /\ inflight' = Remove(inflight, k)
                /\ UNCHANGED <<users, nextUid>>
           ELSE /\ nextUid <= MaxUsers
                /\ users' = (nextUid :> r.row) @@ users
                /\ nextUid' = nextUid + 1
                /\ inflight' = [inflight EXCEPT ![k].pc = "commit_session",
                                                ![k].uid = nextUid]
                /\ UNCHANGED resp
        /\ UNCHANGED <<catalog, sessions, now, ticks, nextTok, revoked, deleted>>

\* tokens; db.add(session); db.commit()
CommitSession(k, op, ok_status, mails) ==
    LET r == inflight[k]
        access == create_access_token(r.email, r.row.role, r.uid, now)
        refresh == create_refresh_token(r.email, r.uid, now)
    IN  /\ AtStep(k, op, "commit_session")
        /\ Len(sessions) < MaxSessions
        /\ sessions' = Append(sessions, NewSession(r.uid, refresh, now, NULL))
        /\ revoked' = NotOf(revoked, r.uid)
        /\ \E m \in mails :
              resp' = Mailed(Resp(op, EmailReq(r.email), ok_status, r.uid,
                                  access, refresh), m)
        /\ inflight' = Remove(inflight, k)
        /\ UNCHANGED <<users, nextUid, catalog, now, ticks, nextTok, deleted>>

\* the verification mail goes out between the two commits
SignupCommitSession(k) ==
    CommitSession(k, "signup", HTTP_201_CREATED,
                  IF k \in 1..Len(inflight)
                  THEN send_email(Mail(inflight[k].email, "verification",
                                       inflight[k].token))
                  ELSE {NoMail})

\* init_default_permissions, one commit at a time. Its queries run in the
\* request's own transaction: they find the names that are missing now, and
\* db.add() queues a row for each of them.
SeedBegin(email, password) ==
    /\ CanStart
    /\ inflight' = Append(inflight,
            InFlight("signup", "commit_seed", email,
                     [missing |-> DefaultPermissions \ catalog,
                      password |-> password], NoId, 0))
    /\ UNCHANGED <<users, nextUid, catalog, sessions, now, ticks, nextTok,
                   revoked, deleted, resp>>

\* db.commit() of the queued rows: UNIQUE(permissions.name) refuses them
\* all when another request has committed one of the names since, and the
\* IntegrityError leaves signup unhandled. Otherwise signup goes on to its
\* existence check and builds the User, as in SignupBegin.
SeedCommit(k) ==
    LET r == inflight[k]
        cat == catalog \cup r.row.missing
        verification_token == generate_verification_token
        row == SignupUser(r.email, UserBaseRole(NULL), r.row.password, NULL,
                          cat, verification_token, now)
    IN  /\ AtStep(k, "signup", "commit_seed")
        /\ IF r.row.missing \cap catalog # {}
           THEN /\ resp' = Fail("signup", EmailReq(r.email),
                                HTTP_500_INTERNAL_SERVER_ERROR)
                /\ inflight' = Remove(inflight, k)
                /\ UNCHANGED <<catalog, nextTok>>
           ELSE /\ catalog' = cat
                /\ IF UserByEmail(r.email) # NoId
                   THEN /\ resp' = Fail("signup", EmailReq(r.email),
                                        HTTP_400_BAD_REQUEST)
                        /\ inflight' = Remove(inflight, k)
                        /\ UNCHANGED nextTok
                   ELSE /\ nextTok <= MaxTokens
                        /\ nextTok' = nextTok + 1
                        /\ inflight' = [inflight EXCEPT ![k] =
                                InFlight("signup", "commit_user", r.email, row,
                                         NoId, verification_token)]
                        /\ UNCHANGED resp
        /\ UNCHANGED <<users, nextUid, sessions, now, ticks, revoked, deleted>>

\* firebase_login up to its first commit: verification and the lookup
FirebaseBegin(a) ==
    LET uid0 == UserByEmail(a.email)
        fresh == InFlight("firebase_login", "commit_user", a.email,
                          FirebaseUser(a.email, a.uid), NoId, 0)
        found == InFlight("firebase_login",
                          IF users[uid0].firebase_uid = NULL
                              THEN "commit_uid" ELSE "commit_login",
                          a.email,
                          [users[uid0] EXCEPT !.firebase_uid =
                              IF @ = NULL THEN a.uid ELSE @],
                          uid0, 0)
    IN  /\ CanStart
        /\ IF ~a.valid \/ a.email = NULL
           THEN /\ resp' = Fail("firebase_login", EmailReq(a.email),
                                HTTP_401_UNAUTHORIZED)
                /\ UNCHANGED inflight
           ELSE /\ inflight' = Append(inflight,
                                      IF uid0 = NoId THEN fresh ELSE found)
                /\ UNCHANGED resp
        /\ UNCHANGED <<users, nextUid, catalog, sessions, now, ticks, nextTok,
                       revoked, deleted>>

\* db.add(user); db.commit() of the new user
FirebaseCommitUser(k) ==
    LET r == inflight[k]
    IN  /\ AtStep(k, "firebase_login", "commit_user")
        /\ IF ~UniqueOk(users, nextUid, r.row)
           THEN /\ resp' = Fail("firebase_login", EmailReq(r.email),
                                HTTP_401_UNAUTHORIZED)
                /\ inflight' = Remove(inflight, k)
                /\ UNCHANGED <<users, nextUid>>
           ELSE /\ nextUid <= MaxUsers
                /\ users' = (nextUid :> r.row) @@ users
                /\ nextUid' = nextUid + 1
                /\ inflight' = [inflight EXCEPT ![k].pc = "commit_login",
                                                ![k].uid = nextUid]
                /\ UNCHANGED resp
        /\ UNCHANGED <<catalog, sessions, now, ticks, nextTok, revoked, deleted>>

\* user.firebase_uid = firebase_uid; db.commit(): the UPDATE writes the uid
\* this request read as missing, whatever the row holds by now
FirebaseCommitUid(k) ==
    LET r == inflight[k]
        row == [users[r.uid] EXCEPT !.firebase_uid = r.row.firebase_uid]
    IN  /\ AtStep(k, "firebase_login", "commit_uid")
        /\ IF ~UniqueOk(users, r.uid, row)
           THEN /\ resp' = Fail("firebase_login", EmailReq(r.email),
                                HTTP_401_UNAUTHORIZED)
                /\ inflight' = Remove(inflight, k)
                /\ UNCHANGED users
           ELSE /\ users' = [users EXCEPT ![r.uid] = row]
                /\ inflight' = [inflight EXCEPT ![k].pc = "commit_login"]
                /\ UNCHANGED resp
        /\ UNCHANGED <<nextUid, catalog, sessions, now, ticks, nextTok, revoked, deleted>>

\* user.last_login = utcnow(); db.commit()
FirebaseCommitLogin(k) ==
    LET r == inflight[k]
    IN  /\ AtStep(k, "firebase_login", "commit_login")
        /\ users' = [users EXCEPT ![r.uid].last_login = now]
        /\ inflight' = [inflight EXCEPT ![k].pc = "commit_session"]
        /\ UNCHANGED <<nextUid, catalog, sessions, now, ticks, nextTok, revoked,
                       deleted, resp>>

FirebaseCommitSession(k) ==
    CommitSession(k, "firebase_login", HTTP_200_OK, {NoMail})

(* the caller receives the response *)
Deliver ==
    /\ resp # NoResp
    /\ resp' = NoResp
    /\ UNCHANGED <<users, nextUid, catalog, sessions, now, ticks, nextTok,
                   revoked, deleted, inflight>>

(* the clock *)
Tick(d) ==
    /\ resp = NoResp
    /\ ticks < MaxTicks
    /\ now' = now + d
    /\ ticks' = ticks + 1
    /\ UNCHANGED <<users, nextUid, catalog, sessions, revoked,
                   deleted, inflight, nextTok, resp>>

(* --------------------------- specifications --------------------------- *)
Init ==
    /\ users = <<>>
    /\ nextUid = 1
    /\ catalog = {}
    /\ sessions = <<>>
    /\ now = 0
    /\ ticks = 0
    /\ revoked = {}
    /\ deleted = {}
    /\ inflight = <<>>
    /\ nextTok = 1
    /\ resp = NoResp

\* Spec: authentication and the session lifecycle. a@b.com registers with a
\* password, c@d.com arrives through the identity provider.
Next ==
    \/ Idle /\ \E r \in SignupRoles, p \in SignupPasswords, f \in FirebaseUids \cup {NULL} :
          Signup("a@b.com", r, p, f)
    \/ Idle /\ \E e \in Emails, p \in LoginPasswords : Login(e, p)
    \/ Idle /\ \E a \in FirebaseAssertions : FirebaseLogin(a)
    \/ Idle /\ \E tok \in TokenInputs : Refresh(tok)
    \/ Idle /\ \E tok \in TokenInputs : GetMe(tok)
    \/ Idle /\ \E tok \in BearerInputs : Logout(tok)
    \/ Idle /\ \E tok \in BearerInputs : DeleteAccount(tok)
    \/ Idle /\ \E tok \in BearerInputs, id \in Ids, b \in BOOLEAN :
          ToggleUserStatus(tok, id, b)
    \/ Idle /\ \E tok \in BearerInputs, id \in Ids : DeleteUser(tok, id)
    \/ \E d \in TickSteps : Tick(d)
    \/ Deliver

Spec == Init /\ [][Next]_vars

\* SpecAdmin: authorization and administration. Both addresses register, in
\* any role.
NextAdmin ==
    \/ Idle /\ \E e \in Emails, r \in UserRole, p \in SignupPasswords :
          Signup(e, r, p, NULL)
    \/ Idle /\ \E tok \in TokenInputs : GetMe(tok)
    \/ Idle /\ \E tok \in BearerInputs : GetAllUsers(tok)
    \/ Idle /\ \E tok \in BearerInputs, id \in Ids, r \in UserRole :
          UpdateUserRole(tok, id, r)
    \/ Idle /\ \E tok \in BearerInputs, id \in Ids, ps \in PermissionInputs :
          UpdateUserPermissions(tok, id, ps)
    \/ Idle /\ \E tok \in BearerInputs, id \in Ids, b \in BOOLEAN :
          ToggleUserStatus(tok, id, b)
    \/ Idle /\ \E tok \in BearerInputs, id \in Ids : DeleteUser(tok, id)
    \/ Deliver

SpecAdmin == Init /\ [][NextAdmin]_vars

\* SpecConc: signup and firebase-login requests run concurrently, each
\* commit a step of its own.
InFlightIds == 1..MaxInflight
NextConc ==
    \/ \E e \in Emails, r \in {NULL, "admin"}, p \in SignupPasswords,
          f \in FirebaseUids \cup {NULL} : SignupBegin(e, r, p, f)
    \/ \E k \in InFlightIds : SignupCommitUser(k)
    \/ \E k \in InFlightIds : SignupCommitSession(k)
    \/ \E a \in FirebaseAssertions : FirebaseBegin(a)
    \/ \E k \in InFlightIds : FirebaseCommitUser(k)
    \/ \E k \in InFlightIds : FirebaseCommitUid(k)
    \/ \E k \in InFlightIds : FirebaseCommitLogin(k)
    \/ \E k \in InFlightIds : FirebaseCommitSession(k)
    \/ Deliver

SpecConc == Init /\ [][NextConc]_vars

\* SpecSeed: concurrent signups, the catalog seeding a commit of its own.
NextSeed ==
    \/ \E e \in Emails, p \in SignupPasswords : SeedBegin(e, p)
    \/ \E k \in InFlightIds : SeedCommit(k)
    \/ \E k \in InFlightIds : SignupCommitUser(k)
    \/ \E k \in InFlightIds : SignupCommitSession(k)
    \/ Deliver

SpecSeed == Init /\ [][NextSeed]_vars

\* SpecMail: email verification and password reset. a@b.com registers with
\* a password, c@d.com arrives through the identity provider; the clock
\* steps to a reset token's and to a verification token's expiry.
MailTickSteps == {RESET_EXPIRE_HOURS * MinutesPerHour,
                  VERIFICATION_EXPIRE_HOURS * MinutesPerHour}
NextMail ==
    \/ Idle /\ \E p \in SignupPasswords : Signup("a@b.com", NULL, p, NULL)
    \/ Idle /\ \E a \in FirebaseAssertions : FirebaseLogin(a)
    \/ Idle /\ \E t \in OneTimeTokens : VerifyEmail(t)
    \/ Idle /\ \E e \in Emails : ForgotPassword(e)
    \/ Idle /\ \E t \in OneTimeTokens, p \in NewPasswords : ResetPassword(t, p)
    \/ Idle /\ \E tok \in BearerInputs : UpdateProfile(tok)
    \/ Idle /\ \E tok \in BearerInputs, c \in LoginPasswords, p \in NewPasswords :
          ChangePassword(tok, c, p)
    \/ Idle /\ \E tok \in BearerInputs : DeleteAccount(tok)
    \/ \E d \in MailTickSteps : Tick(d)
    \/ Deliver

SpecMail == Init /\ [][NextMail]_vars

\* SpecFed: federated login for addresses that may also have registered
\* with a password, with or without a provider account of their own.
\* Forged is an id token that carries claims and does not verify
Forged == [valid |-> FALSE, email |-> "c@d.com", uid |-> "fb2"]
FedAssertions ==
    {[valid |-> TRUE, email |-> e, uid |-> f] :
        e \in Emails, f \in FirebaseUids}
    \cup {InvalidAssertion, Forged}
NextFed ==
    \/ Idle /\ \E e \in Emails, p \in SignupPasswords,
                  f \in FirebaseUids \cup {NULL} : Signup(e, NULL, p, f)
    \/ Idle /\ \E a \in FedAssertions : FirebaseLogin(a)
    \/ Idle /\ \E tok \in BearerInputs : Logout(tok)
    \/ Deliver

SpecFed == Init /\ [][NextFed]_vars

(* ------------------------------- claims -------------------------------- *)
\* the tokens the system has handed out or been handed, as far as the state
\* remembers them
Presented ==
    TokenInputs \cup {resp.req.token, resp.access_token, resp.refresh_token}

\* C1: once logout has deleted U's sessions, and until U obtains a new
\* session, no session row of U exists and the refresh operation answers 401
\* to every refresh token issued to U before the logout: those whose sessions
\* the logout deleted, and any other refresh token that carries U's id.
C1_LogoutInvalidatesAll ==
    /\ \A tok \in revoked :
          /\ SessionsOf(tok.user_id) = {}
          /\ RefreshStatus(tok) = HTTP_401_UNAUTHORIZED
          /\ \A e \in Emails, t \in PastTimes :
                RefreshStatus(create_refresh_token(e, tok.user_id, t))
                    = HTTP_401_UNAUTHORIZED
    /\ (resp.op = "refresh" /\ resp.req.token \in revoked)
          => resp.status = HTTP_401_UNAUTHORIZED

\* a user who held two sessions has logged out, still exists, and one of the
\* two refresh tokens, unexpired, has just been refused
C1_Witness ==
    /\ resp.op = "refresh"
    /\ resp.status = HTTP_401_UNAUTHORIZED
    /\ resp.req.token \in revoked
    /\ Decodes(resp.req.token, now)
    /\ resp.req.token.user_id \in UserIds
    /\ \E other \in revoked :
          other # resp.req.token /\ other.user_id = resp.req.token.user_id

\* C2: token kinds are never confused: the identity resolver answers 401 to
\* every token that decodes with a type other than "access", and the refresh
\* operation answers 401 to every token that decodes with a type other than
\* "refresh"; this for every token issued or presented.
C2_TokenKindsNotConfused ==
    /\ \A tok \in Presented :
          Decodes(tok, now) =>
            /\ tok.type # "access"
                  => get_current_user(tok).status = HTTP_401_UNAUTHORIZED
            /\ tok.type # "refresh"
                  => RefreshStatus(tok) = HTTP_401_UNAUTHORIZED
    /\ (resp.op = "get_me" /\ resp.req.token.type # "access")
          => resp.status = HTTP_401_UNAUTHORIZED
    /\ (resp.op = "refresh" /\ resp.req.token.type # "refresh")
          => resp.status = HTTP_401_UNAUTHORIZED

\* the live refresh token of an active user's stored session has just been
\* refused as a bearer token
C2_Witness ==
    /\ resp.op = "get_me"
    /\ resp.status = HTTP_401_UNAUTHORIZED
    /\ resp.req.token \in StoredTokens
    /\ Decodes(resp.req.token, now)
    /\ FindValidSession(resp.req.token) # 0
    /\ UserByEmail(resp.req.token.sub) # NoId
    /\ users[UserByEmail(resp.req.token.sub)].is_active

\* C3: a token that decodes with type "access" and names an existing user
\* whose is_active flag is false makes the identity resolver answer 403,
\* never 401, and so does every endpoint that resolves its caller through
\* it; nothing is changed on behalf of such a caller.
C3_InactiveIsForbidden ==
    [][\A tok \in TokenInputs :
          LET uid == UserByEmail(tok.sub)
              inactive == /\ Decodes(tok, now)
                          /\ tok.type = "access"
                          /\ uid # NoId
                          /\ ~users[uid].is_active
          IN  inactive =>
                /\ get_current_user(tok).status = HTTP_403_FORBIDDEN
                /\ GetMe(tok) => resp'.status = HTTP_403_FORBIDDEN
                /\ Logout(tok) =>
                      resp'.status = HTTP_403_FORBIDDEN /\ sessions' = sessions
                /\ DeleteAccount(tok) =>
                      resp'.status = HTTP_403_FORBIDDEN /\ users' = users
                /\ \A id \in Ids, b \in BOOLEAN :
                      ToggleUserStatus(tok, id, b) =>
                        resp'.status = HTTP_403_FORBIDDEN /\ users' = users
                /\ \A id \in Ids :
                      DeleteUser(tok, id) =>
                        resp'.status = HTTP_403_FORBIDDEN /\ users' = users
      ]_vars

\* a deactivated user's unexpired access token has just been answered 403
C3_Witness ==
    /\ resp.op = "get_me"
    /\ resp.status = HTTP_403_FORBIDDEN
    /\ Decodes(resp.req.token, now)
    /\ resp.req.token.type = "access"
    /\ UserByEmail(resp.req.token.sub) # NoId
    /\ ~users[UserByEmail(resp.req.token.sub)].is_active

\* C4: the identity resolver returns a user only for a token that decodes,
\* has type "access" and carries a subject, and then the stored user with
\* that email; when the token does not decode, has no subject, or names an
\* email no stored user has (a deleted user's included), the outcome is 401.
C4_ResolverOutcome ==
    /\ \A tok \in Presented :
          LET r == get_current_user(tok)
          IN  /\ r.status = HTTP_200_OK =>
                    /\ Decodes(tok, now)
                    /\ tok.type = "access"
                    /\ tok.sub # NULL
                    /\ r.uid \in UserIds
                    /\ users[r.uid].email = tok.sub
              /\ (~Decodes(tok, now) \/ tok.sub = NULL
                      \/ UserByEmail(tok.sub) = NoId) =>
                    r = Resolved(HTTP_401_UNAUTHORIZED, NoId)
    /\ resp.op = "get_me" =>
          LET tok == resp.req.token
          IN  /\ resp.status = HTTP_200_OK =>
                    /\ Decodes(tok, now)
                    /\ tok.type = "access"
                    /\ tok.sub # NULL
                    /\ resp.uid \in UserIds
                    /\ users[resp.uid].email = tok.sub
              /\ (~Decodes(tok, now) \/ tok.sub = NULL
                      \/ UserByEmail(tok.sub) = NoId) =>
                    resp.status = HTTP_401_UNAUTHORIZED

\* an unexpired access token of a user deleted since has just been answered
\* 401
C4_Witness ==
    /\ resp.op = "get_me"
    /\ resp.status = HTTP_401_UNAUTHORIZED
    /\ Decodes(resp.req.token, now)
    /\ resp.req.token.type = "access"
    /\ resp.req.token.sub \in deleted
    /\ UserByEmail(resp.req.token.sub) = NoId

\* C8: a signup without a role field for an email no user has answers 201
\* with an access and a refresh token and adds exactly one user, of role
\* "user" and with permissions {read}; a signup for an email some user has
\* answers 400 and adds no user and no session.
C8_SignupDefaultsAndDuplicate ==
    [][\A e \in Emails, p \in SignupPasswords, f \in FirebaseUids \cup {NULL} :
          Signup(e, NULL, p, f) =>
            IF UserByEmail(e) = NoId
            THEN /\ resp'.status = HTTP_201_CREATED
                 /\ Decodes(resp'.access_token, now)
                 /\ resp'.access_token.type = "access"
                 /\ Decodes(resp'.refresh_token, now)
                 /\ resp'.refresh_token.type = "refresh"
                 /\ resp'.uid \notin UserIds
                 /\ DOMAIN users' = UserIds \cup {resp'.uid}
                 /\ users'[resp'.uid].email = e
                 /\ users'[resp'.uid].role = "user"
                 /\ users'[resp'.uid].permissions = {"read"}
            ELSE /\ resp'.status = HTTP_400_BAD_REQUEST
                 /\ users' = users
                 /\ nextUid' = nextUid
                 /\ sessions' = sessions
      ]_vars

\* a second signup for the email of a user that a signup created with role
\* "user" and permissions {read} has just been answered 400
C8_Witness ==
    /\ resp.op = "signup"
    /\ resp.status = HTTP_400_BAD_REQUEST
    /\ UserByEmail(resp.req.email) # NoId
    /\ users[UserByEmail(resp.req.email)].role = "user"
    /\ users[UserByEmail(resp.req.email)].permissions = {"read"}
    /\ users[UserByEmail(resp.req.email)].hashed_password # NoPassword
    /\ Cardinality(UserIds) = 1

\* C10: a login with an email no user has, or with a password other than
\* the user's, answers 401 and changes nothing in the store: no session is
\* added and no last_login is written.
C10_FailedLoginFrame ==
    [][\A e \in Emails, p \in LoginPasswords :
          LET uid == UserByEmail(e)
          IN  (/\ Login(e, p)
               /\ \/ uid = NoId
                  \/ users[uid].hashed_password # get_password_hash(p))
              => /\ resp'.status = HTTP_401_UNAUTHORIZED
                 /\ users' = users
                 /\ sessions' = sessions
                 /\ nextUid' = nextUid
                 /\ catalog' = catalog
      ]_vars

\* a login with a wrong password for an existing, active user who has
\* logged in before has just been answered 401
C10_Witness ==
    /\ resp.op = "login"
    /\ resp.status = HTTP_401_UNAUTHORIZED
    /\ UserByEmail(resp.req.email) # NoId
    /\ users[UserByEmail(resp.req.email)].is_active
    /\ users[UserByEmail(resp.req.email)].hashed_password # NoPassword
    /\ Len(sessions) < MaxSessions

\* C5: for every caller the resolver returns and every set of allowed roles,
\* the role gate lets the caller through exactly when the caller's stored
\* role is in the set, and answers 403 otherwise; so do the endpoints behind
\* a role gate.
C5_RoleGate ==
    [][\A tok \in BearerInputs :
          LET cur == get_current_active_user(tok)
          IN  cur.status = HTTP_200_OK =>
                /\ \A allowed \in SUBSET UserRole :
                      IF users[cur.uid].role \in allowed
                      THEN require_role(tok, allowed) = cur
                      ELSE require_role(tok, allowed).status = HTTP_403_FORBIDDEN
                /\ GetAllUsers(tok) =>
                      IF users[cur.uid].role \in {"admin", "hr"}
                      THEN resp'.status = HTTP_200_OK
                      ELSE resp'.status = HTTP_403_FORBIDDEN
                /\ \A id \in Ids, b \in BOOLEAN :
                      ToggleUserStatus(tok, id, b) =>
                        IF users[cur.uid].role = "admin"
                        THEN resp'.status # HTTP_403_FORBIDDEN
                        ELSE resp'.status = HTTP_403_FORBIDDEN /\ users' = users
      ]_vars

\* an active hr user has just been refused by the admin-only status endpoint
C5_Witness ==
    /\ resp.op = "toggle_user_status"
    /\ resp.status = HTTP_403_FORBIDDEN
    /\ get_current_active_user(resp.req.token).status = HTTP_200_OK
    /\ users[get_current_active_user(resp.req.token).uid].role = "hr"

\* C6: for every caller the resolver returns and every set of required
\* permissions, the permission gate lets the caller through exactly when the
\* caller holds at least one of them, and answers 403 otherwise; so do the
\* endpoints behind a permission gate, for an hr caller as for any other.
C6_PermissionGate ==
    [][\A tok \in BearerInputs :
          LET cur == get_current_active_user(tok)
          IN  cur.status = HTTP_200_OK =>
                /\ \A required \in SUBSET PermissionName :
                      IF users[cur.uid].permissions \cap required # {}
                      THEN require_permission(tok, required) = cur
                      ELSE require_permission(tok, required).status
                               = HTTP_403_FORBIDDEN
                /\ \A id \in Ids, r \in UserRole :
                      UpdateUserRole(tok, id, r) =>
                        IF "manage_roles" \in users[cur.uid].permissions
                        THEN resp'.status # HTTP_403_FORBIDDEN
                        ELSE resp'.status = HTTP_403_FORBIDDEN /\ users' = users
                /\ \A id \in Ids, ps \in PermissionInputs :
                      UpdateUserPermissions(tok, id, ps) =>
                        IF "manage_users" \in users[cur.uid].permissions
                        THEN resp'.status # HTTP_403_FORBIDDEN
                        ELSE resp'.status = HTTP_403_FORBIDDEN /\ users' = users
                /\ \A id \in Ids :
                      DeleteUser(tok, id) =>
                        IF "delete" \in users[cur.uid].permissions
                        THEN resp'.status # HTTP_403_FORBIDDEN
                        ELSE resp'.status = HTTP_403_FORBIDDEN /\ users' = users
      ]_vars

\* an active hr user, holding the hr bundle and so not manage_roles, has just
\* been refused by the role-change endpoint
C6_Witness ==
    /\ resp.op = "update_user_role"
    /\ resp.status = HTTP_403_FORBIDDEN
    /\ get_current_active_user(resp.req.token).status = HTTP_200_OK
    /\ users[get_current_active_user(resp.req.token).uid].role = "hr"
    /\ users[get_current_active_user(resp.req.token).uid].permissions
          = {"read", "write", "manage_users"}

\* C7: a role change that answers 200 leaves the target with the new role
\* and, whatever it held before, with the whole catalog if the role is admin,
\* with {read, write, manage_users} if it is hr, and otherwise with {read},
\* or with nothing if the catalog has no "read".
C7_RoleChangeResetsPermissions ==
    [][\A tok \in BearerInputs, id \in Ids, r \in UserRole :
          (UpdateUserRole(tok, id, r) /\ resp'.status = HTTP_200_OK) =>
            /\ id \in DOMAIN users'
            /\ users'[id].role = r
            /\ users'[id].permissions =
                  IF r = "admin" THEN catalog'
                  ELSE IF r = "hr" THEN {"read", "write", "manage_users"}
                  ELSE IF "read" \in catalog' THEN {"read"}
                  ELSE {}
      ]_vars

\* a user other than the caller has just been made hr and holds the hr
\* bundle
C7_Witness ==
    /\ resp.op = "update_user_role"
    /\ resp.status = HTTP_200_OK
    /\ resp.req.target \in UserIds
    /\ resp.req.target # resp.uid
    /\ users[resp.req.target].role = "hr"
    /\ users[resp.req.target].permissions = {"read", "write", "manage_users"}

\* C9: no two user rows hold the same email, however concurrent signup and
\* firebase-login requests interleave between their commits.
C9_EmailUnique ==
    \A i \in UserIds, j \in UserIds :
        i # j => users[i].email # users[j].email

\* a signup that passed the existence check has just had its insert refused,
\* the email having been committed by a firebase-login meanwhile
C9_Witness ==
    /\ resp.op = "signup"
    /\ resp.status = HTTP_500_INTERNAL_SERVER_ERROR
    /\ UserByEmail(resp.req.email) # NoId
    /\ users[UserByEmail(resp.req.email)].hashed_password = NoPassword

\* C11: forgot-password answers every email, one that no user has as one
\* that a user has, with the same 200 response that names no user; for an
\* email no user has it writes nothing to the store, generates no token and
\* sends no mail.
C11_ForgotPasswordEnumeration ==
    [][\A e \in Emails :
          ForgotPassword(e) =>
            /\ resp'.status = HTTP_200_OK
            /\ resp'.uid = NoId
            /\ resp'.access_token = NoToken
            /\ resp'.refresh_token = NoToken
            /\ UserByEmail(e) = NoId =>
                  /\ resp'.mail = NoMail
                  /\ users' = users
                  /\ nextTok' = nextTok
                  /\ sessions' = sessions
                  /\ catalog' = catalog
      ]_vars

\* with a user in the store, a forgot-password for an email that user does
\* not have has just been answered
C11_Witness ==
    /\ resp.op = "forgot_password"
    /\ resp.status = HTTP_200_OK
    /\ UserIds # {}
    /\ UserByEmail(resp.req.email) = NoId

\* C12: the refresh operation answers 200 only to a token for which a
\* session row holds that very token, the token's user id, and an expires_at
\* strictly later than now; the token of a session whose expires_at is now
\* or earlier is refused although its row is still stored.
C12_RefreshNeedsLiveSession ==
    /\ \A tok \in Presented :
          RefreshStatus(tok) = HTTP_200_OK =>
            \E k \in 1..Len(sessions) :
                /\ sessions[k].refresh_token = tok
                /\ sessions[k].user_id = tok.user_id
                /\ sessions[k].expires_at > now
    /\ \A k \in 1..Len(sessions) :
          sessions[k].expires_at <= now =>
            RefreshStatus(sessions[k].refresh_token) = HTTP_401_UNAUTHORIZED
    /\ (resp.op = "refresh" /\ resp.status = HTTP_200_OK) =>
          \E k \in 1..Len(sessions) :
              /\ sessions[k].refresh_token = resp.req.token
              /\ sessions[k].user_id = resp.req.token.user_id
              /\ sessions[k].expires_at > now

\* a token that still decodes, stored in a session row whose expires_at is
\* not later than now, has just been refused
C12_Witness ==
    /\ resp.op = "refresh"
    /\ resp.status = HTTP_401_UNAUTHORIZED
    /\ Decodes(resp.req.token, now)
    /\ resp.req.token.type = "refresh"
    /\ \E k \in 1..Len(sessions) :
          /\ sessions[k].refresh_token = resp.req.token
          /\ sessions[k].user_id = resp.req.token.user_id
          /\ sessions[k].expires_at <= now

\* C13: a signup answered 201, a login answered 200 and a firebase-login
\* answered 200 each add exactly one session row, which belongs to the user
\* the response is for, who has the email of the request, and which stores
\* the refresh token of that response; answered otherwise, they leave the
\* sessions as they were.
C13_SessionPerSuccess ==
    [][LET OneNewSession(email) ==
               /\ Len(sessions') = Len(sessions) + 1
               /\ SubSeq(sessions', 1, Len(sessions)) = sessions
               /\ sessions'[Len(sessions')].user_id = resp'.uid
               /\ sessions'[Len(sessions')].refresh_token = resp'.refresh_token
               /\ resp'.refresh_token.type = "refresh"
               /\ resp'.uid \in DOMAIN users'
               /\ users'[resp'.uid].email = email
       IN  /\ \A e \in Emails, r \in SignupRoles, p \in SignupPasswords,
                f \in FirebaseUids \cup {NULL} :
                 Signup(e, r, p, f) =>
                   IF resp'.status = HTTP_201_CREATED
                   THEN OneNewSession(e) ELSE sessions' = sessions
           /\ \A e \in Emails, p \in LoginPasswords :
                 Login(e, p) =>
                   IF resp'.status = HTTP_200_OK
                   THEN OneNewSession(e) ELSE sessions' = sessions
           /\ \A a \in FirebaseAssertions :
                 FirebaseLogin(a) =>
                   IF resp'.status = HTTP_200_OK
                   THEN OneNewSession(a.email) ELSE sessions' = sessions
      ]_vars

\* a firebase-login has just been answered 200 while another session was
\* stored: the newest row is the caller's and stores the returned token
C13_Witness ==
    /\ resp.op = "firebase_login"
    /\ resp.status = HTTP_200_OK
    /\ Len(sessions) = MaxSessions
    /\ sessions[Len(sessions)].user_id = resp.uid
    /\ sessions[Len(sessions)].refresh_token = resp.refresh_token
    /\ sessions[1].user_id # resp.uid

\* C14: every step leaves the session rows as they were, or appends one new
\* row after them, or removes some of them; it never changes the user,
\* refresh token, expiry or client metadata of a row that stays.
C14_SessionsImmutable ==
    [][LET Kept(S) ==
               LET f[i \in 0..Len(sessions)] ==
                       IF i = 0 THEN <<>>
                       ELSE IF i \in S THEN Append(f[i - 1], sessions[i])
                       ELSE f[i - 1]
               IN  f[Len(sessions)]
       IN  \/ sessions' = sessions
           \/ /\ Len(sessions') = Len(sessions) + 1
              /\ SubSeq(sessions', 1, Len(sessions)) = sessions
           \/ \E S \in SUBSET (1..Len(sessions)) : sessions' = Kept(S)
      ]_vars

\* a refresh has just been answered 200 at a later time than the session
\* was created, and the row still has the expiry it was created with
C14_Witness ==
    /\ resp.op = "refresh"
    /\ resp.status = HTTP_200_OK
    /\ \E k \in 1..Len(sessions) :
          /\ sessions[k].refresh_token = resp.req.token
          /\ sessions[k].expires_at = resp.req.token.exp
          /\ sessions[k].expires_at
                < now + REFRESH_TOKEN_EXPIRE_DAYS * MinutesPerDay

\* C15: every session row belongs to a stored user: a user deleted through
\* DELETE /users/me or by an administrator is gone together with all of its
\* session rows, and the refresh operation answers 401 to every refresh
\* token of a deleted user.
C15_DeleteCascades ==
    /\ \A k \in 1..Len(sessions) : sessions[k].user_id \in UserIds
    /\ (resp.op = "delete_account" /\ resp.status = HTTP_200_OK) =>
          resp.uid \notin UserIds /\ SessionsOf(resp.uid) = {}
    /\ (resp.op = "delete_user" /\ resp.status = HTTP_200_OK) =>
          resp.req.target \notin UserIds /\ SessionsOf(resp.req.target) = {}
    /\ \A tok \in Presented :
          (tok.type = "refresh" /\ tok.user_id \notin UserIds) =>
            RefreshStatus(tok) = HTTP_401_UNAUTHORIZED
    /\ (resp.op = "refresh" /\ resp.req.token.user_id \notin UserIds) =>
          resp.status = HTTP_401_UNAUTHORIZED

\* the unexpired refresh token of a session that went with its deleted user
\* has just been refused
C15_Witness ==
    /\ resp.op = "refresh"
    /\ resp.status = HTTP_401_UNAUTHORIZED
    /\ resp.req.token \in revoked
    /\ Decodes(resp.req.token, now)
    /\ resp.req.token.sub \in deleted
    /\ resp.req.token.user_id \notin UserIds
    /\ resp.req.token.user_id < nextUid

\* C16: a stored user's is_email_verified goes from false to true only in a
\* verify-email step whose token hashes to the user's stored verification
\* hash while the stored expiry is later than now; a user is created
\* verified only by firebase-login; and a user that is verified stays
\* verified in every step that keeps the user.
C16_VerificationMonotone ==
    [][/\ \A uid \in UserIds \cap DOMAIN users' :
            /\ users[uid].is_email_verified => users'[uid].is_email_verified
            /\ (~users[uid].is_email_verified /\ users'[uid].is_email_verified)
                  => \E t \in OneTimeTokens :
                        /\ VerifyEmail(t)
                        /\ users[uid].email_verification_token = hash_token(t)
                        /\ users[uid].email_verification_expire > now
       /\ \A uid \in DOMAIN users' \ UserIds :
            users'[uid].is_email_verified
              => \E a \in FirebaseAssertions : a.valid /\ FirebaseLogin(a)
      ]_vars

\* a user who registered unverified has just been verified, some time after
\* the signup, and holds no verification token any more
C16_Witness ==
    /\ resp.op = "verify_email"
    /\ resp.status = HTTP_200_OK
    /\ now > 0
    /\ resp.uid \in UserIds
    /\ users[resp.uid].is_email_verified
    /\ users[resp.uid].hashed_password # NoPassword
    /\ users[resp.uid].email_verification_token = NoHash

\* C17: verify-email and reset-password answer 200 to a token only when a
\* row stores its hash with an expiry later than now, and then clear that
\* hash and expiry, so that no row stores the token's hash afterwards; to
\* every other token, one used before or one past its expiry, they answer
\* 400 and change nothing; and a generated token that no row stores is
\* never stored again, so it is refused from then on.
C17_OneTimeTokens ==
    [][LET StoredV(tbl, t) ==
               \E i \in DOMAIN tbl :
                   tbl[i].email_verification_token = hash_token(t)
           StoredR(tbl, t) ==
               \E i \in DOMAIN tbl :
                   tbl[i].reset_password_token = hash_token(t)
           Nothing == /\ resp'.status = HTTP_400_BAD_REQUEST
                      /\ users' = users
                      /\ sessions' = sessions
                      /\ nextTok' = nextTok
       IN  \A t \in OneTimeTokens :
             /\ VerifyEmail(t) =>
                   IF \E i \in UserIds :
                         /\ users[i].email_verification_token = hash_token(t)
                         /\ users[i].email_verification_expire > now
                   THEN /\ resp'.status = HTTP_200_OK
                        /\ ~StoredV(users', t)
                        /\ users'[resp'.uid].email_verification_token = NoHash
                        /\ users'[resp'.uid].email_verification_expire = NoTime
                   ELSE Nothing
             /\ \A p \in NewPasswords :
                   ResetPassword(t, p) =>
                     IF \E i \in UserIds :
                           /\ users[i].reset_password_token = hash_token(t)
                           /\ users[i].reset_password_expire > now
                     THEN /\ resp'.status = HTTP_200_OK
                          /\ ~StoredR(users', t)
                          /\ users'[resp'.uid].reset_password_token = NoHash
                          /\ users'[resp'.uid].reset_password_expire = NoTime
                     ELSE Nothing
             /\ (t < nextTok /\ ~StoredV(users, t)) => ~StoredV(users', t)
             /\ (t < nextTok /\ ~StoredR(users, t)) => ~StoredR(users', t)
      ]_vars

\* the only token generated so far verified the user who registered; the
\* same token, its expiry not yet reached, has just been refused
C17_Witness ==
    /\ resp.op = "verify_email"
    /\ resp.status = HTTP_400_BAD_REQUEST
    /\ resp.req.one_time = 1
    /\ nextTok = 2
    /\ now < VERIFICATION_EXPIRE_HOURS * MinutesPerHour
    /\ \E i \in UserIds :
          /\ users[i].hashed_password # NoPassword
          /\ users[i].is_email_verified
          /\ users[i].email_verification_token = NoHash

\* C18: a refresh that succeeds returns an access token signed now for the
\* session's user and no refresh token, and writes nothing: users, sessions
\* and the permission catalog are as before, and the token presented is
\* still accepted.
C18_RefreshReadOnly ==
    [][\A tok \in TokenInputs :
          (Refresh(tok) /\ resp'.status = HTTP_200_OK) =>
              /\ resp'.access_token # NoToken
              /\ resp'.access_token.type = "access"
              /\ Decodes(resp'.access_token, now)
              /\ resp'.access_token.user_id = tok.user_id
              /\ resp'.refresh_token = NoToken
              /\ users' = users
              /\ sessions' = sessions
              /\ catalog' = catalog
              /\ nextUid' = nextUid
              /\ \E k \in 1..Len(sessions') :
                    /\ sessions'[k].refresh_token = tok
                    /\ sessions'[k].user_id = tok.user_id
                    /\ sessions'[k].expires_at > now'
      ]_vars

\* a refresh has just succeeded for a stored session
C18_Witness ==
    /\ resp.op = "refresh"
    /\ resp.status = HTTP_200_OK
    /\ resp.access_token # NoToken
    /\ \E k \in 1..Len(sessions) : sessions[k].refresh_token = resp.req.token

\* C19: when the caller resolves to an active user whose role is admin, a
\* request to delete that same user, through DELETE /api/users/me or, the
\* caller holding the delete permission, through
\* DELETE /api/admin/users/{id} with its own id, is answered 400 and leaves
\* users and sessions as they were. (The account endpoint has no such
\* check: this does not hold.)
C19_AdminNeverDeletesItself ==
    [][\A tok \in BearerInputs :
          LET cur == get_current_active_user(tok)
          IN  (/\ cur.status = HTTP_200_OK
               /\ users[cur.uid].role = "admin"
               /\ \/ DeleteAccount(tok)
                  \/ /\ "delete" \in users[cur.uid].permissions
                     /\ DeleteUser(tok, cur.uid)) =>
                  /\ resp'.status = HTTP_400_BAD_REQUEST
                  /\ users' = users
                  /\ sessions' = sessions
      ]_vars

\* the part of C19 the code does keep: the administrative endpoint, open to
\* a caller that holds the delete permission, refuses the caller's own id
\* with 400 and changes nothing
C19_AdminEndpointRefusesSelf ==
    [][\A tok \in BearerInputs :
          LET cur == get_current_active_user(tok)
          IN  (/\ cur.status = HTTP_200_OK
               /\ users[cur.uid].role = "admin"
               /\ "delete" \in users[cur.uid].permissions
               /\ DeleteUser(tok, cur.uid)) =>
                  /\ resp'.status = HTTP_400_BAD_REQUEST
                  /\ users' = users
                  /\ sessions' = sessions
      ]_vars

\* C20: a federated login with a valid assertion that carries an email
\* creates the user when no row has that email (verified, empty password
\* hash, role user, the asserted uid attached); attaches the asserted uid
\* when the row has none; and leaves a uid the row already has as it is,
\* answering 200 when the asserted uid equals it. (When another row holds
\* the asserted uid the first two do not hold.)
C20_FindOrCreate ==
    [][\A a \in FedAssertions :
          (a.valid /\ a.email # NULL /\ FirebaseLogin(a)) =>
              LET uid0 == UserByEmail(a.email)
              IN  IF uid0 = NoId
                  THEN \E i \in DOMAIN users' \ DOMAIN users :
                          /\ users'[i].email = a.email
                          /\ users'[i].is_email_verified
                          /\ users'[i].hashed_password = NoPassword
                          /\ users'[i].role = "user"
                          /\ users'[i].firebase_uid = a.uid
                  ELSE IF users[uid0].firebase_uid = NULL
                  THEN users'[uid0].firebase_uid = a.uid
                  ELSE /\ users'[uid0].firebase_uid = users[uid0].firebase_uid
                       /\ users[uid0].firebase_uid = a.uid =>
                              resp'.status = HTTP_200_OK
      ]_vars

\* what the code keeps of C20: the same three cases, except that when
\* another row already holds the asserted uid the login is answered 401 and
\* neither creates the user nor attaches the uid
C20_FindOrCreateUnlessUidTaken ==
    [][\A a \in FedAssertions :
          (a.valid /\ a.email # NULL /\ FirebaseLogin(a)) =>
              LET uid0 == UserByEmail(a.email)
                  taken == \E j \in UserIds :
                              j # uid0 /\ users[j].firebase_uid = a.uid
                  refused == /\ resp'.status = HTTP_401_UNAUTHORIZED
                             /\ users' = users
                             /\ sessions' = sessions
              IN  IF uid0 = NoId
                  THEN IF taken THEN refused
                       ELSE \E i \in DOMAIN users' \ DOMAIN users :
                              /\ users'[i].email = a.email
                              /\ users'[i].is_email_verified
                              /\ users'[i].hashed_password = NoPassword
                              /\ users'[i].role = "user"
                              /\ users'[i].firebase_uid = a.uid
                              /\ resp'.status = HTTP_200_OK
                  ELSE IF users[uid0].firebase_uid = NULL
                  THEN IF taken THEN refused
                       ELSE /\ users'[uid0].firebase_uid = a.uid
                            /\ resp'.status = HTTP_200_OK
                  ELSE /\ users'[uid0].firebase_uid = users[uid0].firebase_uid
                       /\ resp'.status = HTTP_200_OK
      ]_vars

\* a valid assertion for c@d.com has just been refused although no row has
\* that email: the uid it asserts is held by another row
C20_Witness ==
    /\ resp.op = "firebase_login"
    /\ resp.status = HTTP_401_UNAUTHORIZED
    /\ resp.req.email = "c@d.com"
    /\ UserByEmail("c@d.com") = NoId
    /\ \E j \in UserIds : users[j].firebase_uid # NULL

\* C21: a federated login whose assertion does not verify (the bridge is
\* not initialised, or the provider rejects the id token, whatever claims
\* it carries) is answered 401 with no token, and creates or changes no
\* user and creates no session.
C21_InvalidAssertionLeavesNothing ==
    [][\A a \in FedAssertions :
          (~a.valid /\ FirebaseLogin(a)) =>
              /\ resp'.status = HTTP_401_UNAUTHORIZED
              /\ resp'.access_token = NoToken
              /\ resp'.refresh_token = NoToken
              /\ users' = users
              /\ sessions' = sessions
              /\ nextUid' = nextUid
              /\ catalog' = catalog
      ]_vars

\* a login for c@d.com has just been refused while a user exists and no
\* row holds any provider uid: the assertion was the one that does not
\* verify, and no user for c@d.com has appeared
C21_Witness ==
    /\ resp.op = "firebase_login"
    /\ resp.status = HTTP_401_UNAUTHORIZED
    /\ resp.req.email = "c@d.com"
    /\ UserByEmail("c@d.com") = NoId
    /\ UserIds # {}
    /\ \A j \in UserIds : users[j].firebase_uid = NULL

\* C22: when the verification mail cannot be sent, a signup for a free
\* address still answers 201 with both tokens, and the user and its one
\* session are committed; when the reset mail cannot be sent,
\* forgot-password for a registered address still stores the reset token
\* with its expiry and gives the generic answer.
C22_MailFailureDoesNotFail ==
    [][/\ \A p \in SignupPasswords :
            (/\ UserByEmail("a@b.com") = NoId
             /\ Signup("a@b.com", NULL, p, NULL)
             /\ resp'.mail = NoMail) =>
                /\ resp'.status = HTTP_201_CREATED
                /\ resp'.access_token # NoToken
                /\ resp'.refresh_token # NoToken
                /\ resp'.uid \in DOMAIN users' \ DOMAIN users
                /\ users'[resp'.uid].email = "a@b.com"
                /\ Len(sessions') = Len(sessions) + 1
                /\ sessions'[Len(sessions')].user_id = resp'.uid
                /\ sessions'[Len(sessions')].refresh_token = resp'.refresh_token
       /\ \A e \in Emails :
            (/\ UserByEmail(e) # NoId
             /\ ForgotPassword(e)
             /\ resp'.mail = NoMail) =>
                /\ resp' = Done("forgot_password", EmailReq(e), NoId)
                /\ users'[UserByEmail(e)].reset_password_token
                      = hash_token(nextTok)
                /\ users'[UserByEmail(e)].reset_password_expire
                      = now + RESET_EXPIRE_HOURS * MinutesPerHour
      ]_vars

\* a signup has just succeeded, or a reset token has just been stored,
\* although the mail was not sent
C22_Witness ==
    /\ resp.mail = NoMail
    /\ \/ resp.op = "signup" /\ resp.status = HTTP_201_CREATED
       \/ /\ resp.op = "forgot_password"
          /\ UserByEmail(resp.req.email) # NoId
          /\ users[UserByEmail(resp.req.email)].reset_password_token # NoHash

\* C23: however signups interleave, the commit that seeds the catalog
\* leaves it holding each default permission name, and no signup is
\* answered 500 at that commit because another request has seeded the same
\* names in the meantime. (The second part does not hold: the seeding is a
\* check followed by an insert, and the unique index refuses the loser.)
C23_SeedingSafeToRace ==
    [][\A k \in InFlightIds :
          SeedCommit(k) =>
              /\ catalog' = DefaultPermissions
              /\ resp'.status # HTTP_500_INTERNAL_SERVER_ERROR
      ]_vars

\* the part of C23 the code keeps: the catalog is empty or holds exactly the
\* default names, each once (the table is keyed by name), and a signup
\* that starts after the catalog is seeded adds nothing and is not refused
\* at the seeding commit
C23_CatalogKeyedByName ==
    [][/\ catalog \in {{}, DefaultPermissions}
       /\ \A k \in InFlightIds :
            (/\ SeedCommit(k)
             /\ inflight[k].row.missing = {}) =>
                /\ catalog' = catalog
                /\ resp'.status # HTTP_500_INTERNAL_SERVER_ERROR
      ]_vars

\* a signup has just been refused with 500 while no user exists at all:
\* it lost the seeding race, not the race for an email
C23_Witness ==
    /\ resp.op = "signup"
    /\ resp.status = HTTP_500_INTERNAL_SERVER_ERROR
    /\ UserIds = {}
    /\ catalog = DefaultPermissions

\* C24: a request's effects are committed together: every step that adds a
\* user row also adds the session of the same request, so that no state
\* holds a new user without it. (signup and firebase_login commit the user
\* first and the session later: this does not hold.)
C24_OneTransactionPerRequest ==
    [][\A i \in DOMAIN users' \ DOMAIN users :
          /\ Len(sessions') = Len(sessions) + 1
          /\ sessions'[Len(sessions')].user_id = i
      ]_vars

\* a signup has committed its user and not yet its session: the row is
\* there for every other request to see, and no session belongs to it
C24_Witness ==
    \E k \in 1..Len(inflight) :
        /\ inflight[k].op = "signup"
        /\ inflight[k].pc = "commit_session"
        /\ inflight[k].uid \in UserIds
        /\ \A j \in 1..Len(sessions) : sessions[j].user_id # inflight[k].uid

\* C25: a permission assignment that succeeds sets the target's permission
\* set to exactly the requested names that the catalog holds, whatever the
\* target's role and whatever it held before, and leaves the target's role
\* and active flag, every other user and every session as they were.
C25_PermissionAssignment ==
    [][\A tok \in BearerInputs, id \in Ids, ps \in PermissionInputs :
          (UpdateUserPermissions(tok, id, ps)
           /\ resp'.status = HTTP_200_OK) =>
              /\ id \in UserIds
              /\ users'[id].permissions = {n \in ps : n \in catalog}
              /\ users'[id] = [users[id] EXCEPT
                                  !.permissions = users'[id].permissions]
              /\ \A j \in UserIds \ {id} : users'[j] = users[j]
              /\ DOMAIN users' = DOMAIN users
              /\ sessions' = sessions
              /\ catalog' = catalog
      ]_vars

\* an assignment has just given a user of role "user" the permissions
\* delete and manage_roles, which its role's bundle does not hold
C25_Witness ==
    /\ resp.op = "update_user_permissions"
    /\ resp.status = HTTP_200_OK
    /\ resp.req.target \in UserIds
    /\ users[resp.req.target].role = "user"
    /\ users[resp.req.target].permissions = {"delete", "manage_roles"}

\* C26: login, refresh and federated login give a deactivated user no
\* token and no session: a request that identifies a user whose is_active
\* is false returns neither token and leaves the sessions as they were.
\* (refresh and federated login never read is_active: this does not hold.)
C26_NoTokenForDeactivated ==
    [][LET Inactive(uid) == uid \in UserIds /\ ~users[uid].is_active
           Nothing == /\ resp'.access_token = NoToken
                      /\ resp'.refresh_token = NoToken
                      /\ sessions' = sessions
       IN  /\ \A e \in Emails, p \in LoginPasswords :
                (Inactive(UserByEmail(e)) /\ Login(e, p)) => Nothing
           /\ \A tok \in TokenInputs :
                (Inactive(tok.user_id) /\ Refresh(tok)) => Nothing
           /\ \A a \in FirebaseAssertions :
                (a.valid /\ Inactive(UserByEmail(a.email))
                 /\ FirebaseLogin(a)) => Nothing
      ]_vars

\* the part of C26 the code keeps: login answers a deactivated user 401 or
\* 403, with no token and no new session
C26_LoginRefusesDeactivated ==
    [][\A e \in Emails, p \in LoginPasswords :
          (/\ UserByEmail(e) \in UserIds
           /\ ~users[UserByEmail(e)].is_active
           /\ Login(e, p)) =>
              /\ resp'.status \in {HTTP_401_UNAUTHORIZED, HTTP_403_FORBIDDEN}
              /\ resp'.access_token = NoToken
              /\ resp'.refresh_token = NoToken
              /\ sessions' = sessions
      ]_vars

\* a refresh has just returned an access token for a user who is
\* deactivated
C26_Witness ==
    /\ resp.op = "refresh"
    /\ resp.status = HTTP_200_OK
    /\ resp.access_token # NoToken
    /\ resp.uid \in UserIds
    /\ ~users[resp.uid].is_active

\* the requests of SpecAdmin that a caller makes with bearer token tok
RequestsWith(tok) ==
    \/ GetMe(tok)
    \/ GetAllUsers(tok)
    \/ \E id \in Ids, r \in UserRole : UpdateUserRole(tok, id, r)
    \/ \E id \in Ids, ps \in PermissionInputs :
          UpdateUserPermissions(tok, id, ps)
    \/ \E id \in Ids, b \in BOOLEAN : ToggleUserStatus(tok, id, b)
    \/ \E id \in Ids : DeleteUser(tok, id)

\* C27: a request made by a user whose role is not admin and who does not
\* hold manage_roles changes no existing user's role and does not leave
\* that user holding manage_roles; so no sequence of its own requests
\* does. (A caller holding manage_users can assign itself manage_roles:
\* this does not hold.)
C27_NoEscalation ==
    [][\A tok \in BearerInputs :
          LET cur == get_current_user(tok)
          IN  (/\ cur.status = HTTP_200_OK
               /\ users[cur.uid].role # "admin"
               /\ "manage_roles" \notin users[cur.uid].permissions
               /\ RequestsWith(tok)) =>
                  /\ \A j \in UserIds \cap DOMAIN users' :
                        users'[j].role = users[j].role
                  /\ cur.uid \in DOMAIN users' =>
                        "manage_roles" \notin users'[cur.uid].permissions
      ]_vars

\* the part of C27 the code keeps: the same, for a caller that holds
\* neither manage_roles nor manage_users
C27_NoEscalationWithoutManageUsers ==
    [][\A tok \in BearerInputs :
          LET cur == get_current_user(tok)
          IN  (/\ cur.status = HTTP_200_OK
               /\ users[cur.uid].role # "admin"
               /\ "manage_roles" \notin users[cur.uid].permissions
               /\ "manage_users" \notin users[cur.uid].permissions
               /\ RequestsWith(tok)) =>
                  /\ \A j \in UserIds \cap DOMAIN users' :
                        /\ users'[j].role = users[j].role
                        /\ users'[j].permissions = users[j].permissions
      ]_vars

\* a user of role hr has just given itself manage_roles
C27_Witness ==
    /\ resp.op = "update_user_permissions"
    /\ resp.status = HTTP_200_OK
    /\ resp.uid = resp.req.target
    /\ resp.uid \in UserIds
    /\ users[resp.uid].role = "hr"
    /\ "manage_roles" \in users[resp.uid].permissions

\* C28: the role of an existing user changes only in a step of
\* update_user_role for that user whose caller holds manage_roles then; its
\* permission set changes only in such a step, or in a step of
\* update_user_permissions for that user whose caller holds manage_users
\* then. Every other step leaves both as they were.
C28_RoleAndPermissionsFrame ==
    [][LET Holds(tok, perm) ==
               LET cur == get_current_active_user(tok)
               IN  /\ cur.status = HTTP_200_OK
                   /\ perm \in users[cur.uid].permissions
           ByRole(j) ==
               \E tok \in BearerInputs, r \in UserRole :
                   Holds(tok, "manage_roles") /\ UpdateUserRole(tok, j, r)
           ByAssignment(j) ==
               \E tok \in BearerInputs, ps \in PermissionInputs :
                   /\ Holds(tok, "manage_users")
                   /\ UpdateUserPermissions(tok, j, ps)
       IN  \A j \in UserIds \cap DOMAIN users' :
             /\ users'[j].role # users[j].role => ByRole(j)
             /\ users'[j].permissions # users[j].permissions =>
                    ByRole(j) \/ ByAssignment(j)
      ]_vars

\* a role update has just moved another user to hr, with hr's bundle
C28_Witness ==
    /\ resp.op = "update_user_role"
    /\ resp.status = HTTP_200_OK
    /\ resp.req.target \in UserIds
    /\ resp.req.target # resp.uid
    /\ users[resp.req.target].role = "hr"
    /\ users[resp.req.target].permissions = HrBundle

\* C29: every gated request is judged by the row stored for the token's
\* subject at the moment of the request, whatever role the token claims and
\* whenever it was issued: it passes the active check iff that row is
\* active, the role gate iff moreover the row's role is allowed, the
\* permission gate iff moreover the row holds the permission. So a token
\* issued before a change of role, permissions or active flag is judged by
\* the new values.
C29_JudgedByStoredRecord ==
    [][\A tok \in BearerInputs :
          LET u == UserByEmail(tok.sub)
              known == /\ tok.signed
                       /\ tok.type = "access"
                       /\ tok.exp >= now
                       /\ tok.sub # NULL
                       /\ u # NoId
              active == known /\ users[u].is_active
              HasRole(A) == active /\ users[u].role \in A
              HasPerm(p) == active /\ p \in users[u].permissions
              Passed == resp'.status \notin {HTTP_401_UNAUTHORIZED,
                                             HTTP_403_FORBIDDEN}
              Refused == resp'.status = IF known THEN HTTP_403_FORBIDDEN
                                        ELSE HTTP_401_UNAUTHORIZED
              Judged(ok) == IF ok THEN Passed ELSE Refused
          IN  /\ GetMe(tok) => Judged(active)
              /\ GetAllUsers(tok) => Judged(HasRole({"admin", "hr"}))
              /\ \A id \in Ids, b \in BOOLEAN :
                    ToggleUserStatus(tok, id, b) => Judged(HasRole({"admin"}))
              /\ \A id \in Ids, r \in UserRole :
                    UpdateUserRole(tok, id, r) => Judged(HasPerm("manage_roles"))
              /\ \A id \in Ids, ps \in PermissionInputs :
                    UpdateUserPermissions(tok, id, ps) =>
                        Judged(HasPerm("manage_users"))
              /\ \A id \in Ids : DeleteUser(tok, id) => Judged(HasPerm("delete"))
      ]_vars

\* the token that signup issued to user 1, with its role claim admin, has
\* just been refused at the role gate: the stored row, once active as every
\* new row is, has been deactivated, or holds another role now
C29_Witness ==
    /\ resp.op = "get_all_users"
    /\ resp.status = HTTP_403_FORBIDDEN
    /\ resp.req.token = create_access_token("a@b.com", "admin", 1, 0)
    /\ 1 \in UserIds
    /\ users[1].email = "a@b.com"
    /\ \/ ~users[1].is_active /\ users[1].role = "admin"
       \/ users[1].is_active /\ users[1].role = "user"
          /\ users[1].permissions = {}
====
